---- MODULE Spec2Model ----
(***************************************************************************)
(* State-machine model of the core of the QUIET noise-reduction engine:    *)
(*   - EventDispatcher  (github-actions-simulation/src/core/EventDispatcher.cpp) *)
(*   - AudioRingBuffer  (src/core/AudioBuffer.cpp)                         *)
(*   - VirtualDeviceRouter (src/core/VirtualDeviceRouter.cpp)              *)
(* Each component has its own specification (SpecBus, SpecRing,            *)
(* SpecRouter); the variables of the other components stay unchanged.      *)
(***************************************************************************)
EXTENDS Integers, Sequences, FiniteSets, TLC

(***************************************************************************)
(* Bounds of the model                                                     *)
(***************************************************************************)
MaxEvents == 2          \* events constructed in SpecBus
MaxHandles == 2         \* listener handles handed out in SpecBus
MaxDetached == 1        \* delivery threads detached and not yet run
MaxQueueSize == 2       \* largest argument of setMaxQueueSize
MaxQueueEvents == 3     \* events constructed in SpecQueue
MaxQuietCalls == 2      \* publish() calls before the first start()
MaxCapacity == 4        \* largest capacity of the ring buffer in SpecRing
MaxRouteCalls == 3      \* routeAudioBuffer calls in SpecRouter
RNNOISE_FRAME_SIZE == 2 \* samples of one RNNoise frame, scaled down from 480
MaxFrameSamples == 3    \* most samples of a frame handed to process()
MaxProcessCalls == 2    \* process() calls counted in m_stats.framesProcessed
MaxFilteredCalls == 2   \* publish calls rejected by the filter in SpecFilter
MaxCopySamples == 3     \* samples of the buffers copyFrom is called on
MaxCopyCalls == 2       \* copyFrom calls in SpecCopy
MaxTime == 3            \* hours the clock advances in SpecCleanup
MaxStreamCapacity == 2  \* largest capacity of the ring buffer in SpecRingStream

(***************************************************************************)
(* Program constants                                                       *)
(***************************************************************************)
DefaultMaxQueueSize == 10000
DefaultSampleRate == 48000      \* double m_currentSampleRate{48000.0}
DefaultBufferSize == 256        \* int m_currentBufferSize{256}
MinSampleRate == 8000           \* sampleRate < 8000
MaxSampleRate == 192000         \* sampleRate > 192000
MinBufferSize == 32             \* bufferSize < 32
MaxBufferSize == 8192           \* bufferSize > 8192
RNNOISE_SAMPLE_RATE == 48000    \* static constexpr int RNNOISE_SAMPLE_RATE

EventTypes == {"AudioDeviceError", "AudioLevelChanged"}
FilterTypes == {"AudioLevelChanged"}
GlobalType == "all"
Publishers == {"p1", "p2"}
BusPublishers == {"p1"}
Dispatcher == "disp"
Deliverers == Publishers \cup {Dispatcher}
NoEvent == [id |-> 0, type |-> "none", pub |-> "none", imm |-> FALSE, nh |-> 0]
Outcomes == {"returns", "throws_std", "throws_other", "blocks", "not_scheduled"}

RingThreads == {"producer", "consumer"}
\* getNumSamples() of the frames handed to write() and read(); AudioBuffer
\* stores the sample count it is constructed with unchecked
FrameSamples == -1..MaxCapacity

RouterThreads == {"app", "audio", "hotplug"}
DeviceOrder == <<"d1", "d2">>
DeviceIds == {"d1", "d2"}
NoDevice == ""
LockOutcomes == {"blocks", "throws"}

\* the arguments setAudioConfiguration is called with
SampleRates == {7999, 8000, 44100, 192001}
BufferSizes == {16, 32, 100, 8192, 16384}

\* the sample rates NoiseReductionProcessor::initialize is called with
NrSampleRates == {24000, 48000, 96000}
\* the samples of the frames handed to process(), in quarters of full scale
InputSamples == {0, 4}
\* what a write past the end of a heap buffer leads to
OverflowOutcomes == {"continues", "crashes"}
\* the threads that call process() on one processor
NrThreads == {1, 2}

VARIABLES
    m_running,          \* std::atomic<bool> m_running
    m_shouldStop,       \* std::atomic<bool> m_shouldStop
    m_eventQueue,       \* std::queue<Event> m_eventQueue
    m_maxQueueSize,     \* size_t m_maxQueueSize
    m_stats,            \* Stats m_stats
    m_listeners,        \* handle -> subscribed type ("all" for global)
    m_typeListeners,    \* type -> sequence of handles
    m_globalListeners,  \* sequence of handles
    m_nextHandle,       \* ListenerHandle m_nextHandle
    m_eventFilters,     \* type -> filtered?
    pc,                 \* position of every thread of the dispatcher
    cur,                \* the event a thread is publishing / delivering
    todo,               \* listenersToNotify still to be invoked, per thread
    due,                \* listeners that owe an invocation of cur (ghost)
    detached,           \* deliveries detached before the listener was called
    calls,              \* the listener invocations so far, <<handle, event>> (ghost)
    nextEventId,        \* number of Event objects constructed so far
    discarded,          \* events thrown away by stop() (ghost)
    quietCalls,         \* m_maxQueueSize at each publish() before the first start() (ghost)
    everStarted,        \* start() has been called at least once (ghost)
    crashed,            \* the process was terminated (std::terminate / UB)
    filteredCalls,      \* publish and publishImmediate calls that returned at the filter check (ghost)
    now,                \* std::chrono::steady_clock::now(), in hours
    lastActivity,       \* ListenerInfo::lastActivity of every registered listener
    lastDelivery,       \* when each registered listener was last put on a listenersToNotify (ghost)
    \* AudioRingBuffer
    m_bufferSize,       \* const int m_bufferSize
    m_readPosition,     \* std::atomic<int> m_readPosition
    m_writePosition,    \* std::atomic<int> m_writePosition
    ringPc,             \* position of the producer and the consumer thread
    ringFrame,          \* samplesToWrite / samplesToRead of the call in progress
    ringLocal,          \* writePos of getAvailableToRead, writePos / readPos of the call
    ringResult,         \* what the last call of each thread returned (ghost)
    m_buffer,           \* the samples of one channel of std::unique_ptr<AudioBuffer> m_buffer
    ringStream,         \* samples of the test stream handed to write and taken by read so far (ghost)
    \* VirtualDeviceRouter
    m_platformImpl,     \* m_platformImpl is not null
    present,            \* the virtual devices the system has now
    platformDevice,     \* the device the platform layer has open, or NoDevice
    m_deviceMutex,      \* owner of std::mutex m_deviceMutex
    m_isInitialized,    \* std::atomic<bool> m_isInitialized
    m_isRouting,        \* std::atomic<bool> m_isRouting
    m_currentDevice,    \* VirtualDeviceInfo m_currentDevice: id, isConnected
    m_hotPlugRunning,   \* std::atomic<bool> m_hotPlugRunning
    m_buffersRouted,    \* std::atomic<uint64_t> m_buffersRouted
    m_droppedBuffers,   \* std::atomic<size_t> m_droppedBuffers
    rpc,                \* position of the application, audio and hot-plug thread
    rcall,              \* the call of the application thread that is locking again
    rret,               \* the last return of the application thread (ghost)
    selecting,          \* deviceId and wasRouting of selectVirtualDevice
    scanned,            \* currentDevices of the hot-plug poll
    lastEvent,          \* the event the router handed to publish() last
    lastRouteResult,    \* what routeAudioBuffer returned last (ghost)
    routeSubmitted,     \* routeAudioBuffer calls that found the router routing (ghost)
    routeCompleted,     \* those of them that have returned (ghost)
    routeRejected,      \* routeAudioBuffer calls that found it not routing (ghost)
    reconnectAttempts,  \* failed routeAudioBuffer calls in a row that each tried to reopen (ghost)
    m_errorCallback,    \* ErrorCallback m_errorCallback: TRUE when it holds a function
    lastError,          \* the arguments m_errorCallback was called with last (ghost)
    routeRate,          \* getSampleRate() of the buffer of the last call that found the router routing (ghost)
    \* AudioDeviceManager
    m_mutex,            \* owner of std::mutex m_mutex
    adm_isInitialized,  \* bool m_isInitialized of the AudioDeviceManager
    m_isAudioActive,    \* bool m_isAudioActive
    m_currentSampleRate, \* double m_currentSampleRate
    m_currentBufferSize, \* int m_currentBufferSize
    audioCallbackAdded, \* the manager is an audio callback of the JUCE device manager
    admPc,              \* position of the application thread in the manager
    admCall,            \* the call of the application thread that is locking again
    admRet,             \* the last call or callback: result and events published (ghost)
    \* NoiseReductionProcessor
    nr_isInitialized,   \* m_isInitialized
    m_enabled,
    m_config,
    m_sampleRate,
    m_needsResampling,
    m_rnnoise,          \* TRUE: points to a DenoiseState
    m_rnnoiseRight,
    m_inputQueue,
    m_outputQueue,
    nrStats,            \* m_stats
    nrPc,               \* "idle", or "crashed": the process was terminated
    nrLife,             \* initialize() and shutdown() calls so far (ghost)
    nrRet,              \* the last call: arguments and result (ghost)
    \* NoiseReductionProcessor, the threads inside process()
    nrtPc,              \* the statement of processMonoBuffer each thread is at
    nrtFrame,           \* the samples of each thread's buffer inside processMonoBuffer
    nrtDrained,         \* the samples each call took from m_outputQueue (ghost)
    nrtResult,          \* what each thread's call returned
    m_workingBuffer,
    \* AudioBuffer
    abDest,             \* m_channels of the buffer copyFrom is called on
    abCall,             \* the last copyFrom call: the buffer before it and the arguments (ghost)
    \* NoiseReductionProcessor, setters called by several threads
    cfgPc,              \* where each thread calling a setter of the NoiseReductionProcessor is
    cfgArg,             \* the argument of the setter each thread is in
    \* NoiseReductionProcessor::applyReductionLevel
    shapeCall,          \* the last applyReductionLevel call: its arguments and the frame afterwards (ghost)
    \* AudioBuffer, the accessors
    abAccess            \* the last accessor call of an AudioBuffer: the buffer, the arguments, what it returned and touched (ghost)

busVars == <<m_running, m_shouldStop, m_eventQueue, m_maxQueueSize, m_stats,
             m_listeners, m_typeListeners, m_globalListeners, m_nextHandle,
             m_eventFilters, pc, cur, todo, due, detached, calls,
             nextEventId,
             discarded, quietCalls, everStarted, crashed, filteredCalls,
             now, lastActivity, lastDelivery>>

ringVars == <<m_bufferSize, m_readPosition, m_writePosition, ringPc,
              ringFrame, ringLocal, ringResult,
              m_buffer, ringStream>>

routerVars == <<m_platformImpl, present, platformDevice, m_deviceMutex,
                m_isInitialized, m_isRouting, m_currentDevice,
                m_hotPlugRunning, m_buffersRouted, m_droppedBuffers, rpc,
                rcall, rret, selecting, scanned, lastEvent, lastRouteResult,
                routeSubmitted, routeCompleted, routeRejected,
                reconnectAttempts, m_errorCallback, lastError, routeRate>>

admVars == <<m_mutex, adm_isInitialized, m_isAudioActive, m_currentSampleRate,
             m_currentBufferSize, audioCallbackAdded, admPc, admCall, admRet>>

nrVars == <<nr_isInitialized, m_enabled, m_config, m_sampleRate,
            m_needsResampling, m_rnnoise, m_rnnoiseRight, m_inputQueue,
            m_outputQueue, nrStats, nrPc, nrLife, nrRet>>

nrtVars == <<nrtPc, nrtFrame, nrtDrained, nrtResult, m_workingBuffer>>

abVars == <<abDest, abCall>>

cfgVars == <<cfgPc, cfgArg>>

shapeVars == <<shapeCall>>

accVars == <<abAccess>>

\* the variables of the other components
notBusVars == <<ringVars, routerVars, admVars, nrVars, nrtVars, abVars, cfgVars, shapeVars, accVars>>

\* the variables the calls of the EventDispatcher that get past the filter
\* check do not touch
otherVars == <<notBusVars, filteredCalls, now, lastActivity, lastDelivery>>

\* the same without the times kept for the listeners
notListenerTimes == <<notBusVars, filteredCalls, now>>

\* the variables the AudioRingBuffer does not touch
notRingVars == <<busVars, routerVars, admVars, nrVars, nrtVars, abVars, cfgVars, shapeVars, accVars>>

\* the variables the VirtualDeviceRouter does not touch
notRouterVars == <<busVars, ringVars, admVars, nrVars, nrtVars, abVars, cfgVars, shapeVars, accVars>>

\* the variables the AudioDeviceManager does not touch
notAdmVars == <<busVars, ringVars, routerVars, nrVars, nrtVars, abVars, cfgVars, shapeVars, accVars>>

\* the variables the NoiseReductionProcessor does not touch
notNrVars == <<busVars, ringVars, routerVars, admVars, nrtVars, abVars, cfgVars, shapeVars, accVars>>

\* the variables the threads inside process() do not touch, the members of
\* the processor aside
notNrThreadVars == <<busVars, ringVars, routerVars, admVars, abVars, cfgVars, shapeVars, accVars>>

\* the variables copyFrom does not touch
notAbVars == <<busVars, ringVars, routerVars, admVars, nrVars, nrtVars, cfgVars, shapeVars, accVars>>

\* the variables the setters of the NoiseReductionProcessor do not touch,
\* m_enabled and m_config aside
notCfgVars == <<busVars, ringVars, routerVars, admVars, nrtVars, abVars,
                nr_isInitialized, m_sampleRate, m_needsResampling, m_rnnoise,
                m_rnnoiseRight, m_inputQueue, m_outputQueue, nrStats, nrPc,
                nrLife, nrRet, shapeVars, accVars>>

\* the variables the accessors of an AudioBuffer do not touch
notAccVars == <<busVars, ringVars, routerVars, admVars, nrVars, nrtVars,
                abVars, cfgVars, shapeVars>>

\* the variables applyReductionLevel does not touch
notShapeVars == <<busVars, ringVars, routerVars, admVars, nrVars, nrtVars,
                  abVars, cfgVars, accVars, accVars>>

vars == <<busVars, ringVars, routerVars, admVars, nrVars, nrtVars, abVars, cfgVars, shapeVars, accVars>>

(***************************************************************************)
(* EventDispatcher                                                         *)
(***************************************************************************)
InitBus ==
    /\ m_running = FALSE
    /\ m_shouldStop = FALSE
    /\ m_eventQueue = <<>>
    /\ m_maxQueueSize = DefaultMaxQueueSize
    /\ m_stats = [eventsPublished |-> 0, eventsDelivered |-> 0,
                  eventsDropped |-> 0, activeListeners |-> 0, queueSize |-> 0]
    /\ m_listeners = [h \in {} |-> GlobalType]
    /\ m_typeListeners = [t \in EventTypes |-> <<>>]
    /\ m_globalListeners = <<>>
    /\ m_nextHandle = 1
    /\ m_eventFilters = [t \in EventTypes |-> FALSE]
    /\ pc = [t \in Deliverers \cup {"ctl"} |->
               IF t = Dispatcher THEN "none" ELSE "idle"]
    /\ cur = [t \in Deliverers |-> NoEvent]
    /\ todo = [t \in Deliverers |-> <<>>]
    /\ due = [t \in Deliverers |-> {}]
    /\ detached = {}
    /\ calls = <<>>
    /\ nextEventId = 0
    /\ discarded = 0
    /\ quietCalls = <<>>
    /\ everStarted = FALSE
    /\ crashed = FALSE
    /\ filteredCalls = 0
    /\ now = 0
    /\ lastActivity = <<>>
    /\ lastDelivery = <<>>

queueVars == <<m_eventQueue, m_maxQueueSize>>
listenerVars == <<m_listeners, m_typeListeners, m_globalListeners, m_nextHandle>>
lifeVars == <<m_running, m_shouldStop, everStarted>>
deliveryVars == <<todo, due, detached, calls>>

\* std::queue::pop + push as one step on a sequence
SeqRemove(s, h) == SelectSeq(s, LAMBDA x : x # h)
Restrict(f, S) == [x \in S |-> f[x]]

\* a filter check that lets every type pass
isEventFilteredNever(type) == FALSE

\* EventDispatcher::isEventFiltered
isEventFiltered(type) == m_eventFilters[type]

\* EventDispatcher::start
start ==
    /\ ~crashed
    /\ pc["ctl"] = "idle"
    /\ ~m_running
    /\ m_shouldStop' = FALSE
    /\ m_running' = TRUE
    /\ pc' = [pc EXCEPT ![Dispatcher] = "wait"]
    /\ everStarted' = TRUE
    /\ UNCHANGED <<queueVars, m_stats, listenerVars, m_eventFilters, cur,
                   deliveryVars, nextEventId, discarded, quietCalls, crashed>>
    /\ UNCHANGED otherVars

\* EventDispatcher::stop, up to the join
stopSignal ==
    /\ ~crashed
    /\ pc["ctl"] = "idle"
    /\ m_running
    /\ m_shouldStop' = TRUE
    /\ pc' = [pc EXCEPT !["ctl"] = "stop_join"]
    /\ UNCHANGED <<m_running, everStarted, queueVars, m_stats, listenerVars,
                   m_eventFilters, cur, deliveryVars, nextEventId, discarded,
                   quietCalls, crashed>>
    /\ UNCHANGED otherVars

\* EventDispatcher::stop, join() returns once processEvents has returned
stopJoin ==
    /\ ~crashed
    /\ pc["ctl"] = "stop_join"
    /\ pc[Dispatcher] = "done"
    /\ m_running' = FALSE
    /\ pc' = [pc EXCEPT !["ctl"] = "stop_clear", ![Dispatcher] = "none"]
    /\ UNCHANGED <<m_shouldStop, everStarted, queueVars, m_stats, listenerVars,
                   m_eventFilters, cur, deliveryVars, nextEventId, discarded,
                   quietCalls, crashed>>
    /\ UNCHANGED otherVars

\* EventDispatcher::stop, the swap with an empty queue under m_queueMutex
stopClear ==
    /\ ~crashed
    /\ pc["ctl"] = "stop_clear"
    /\ discarded' = discarded + Len(m_eventQueue)
    /\ m_eventQueue' = <<>>
    /\ pc' = [pc EXCEPT !["ctl"] = "idle"]
    /\ UNCHANGED <<lifeVars, m_maxQueueSize, m_stats, listenerVars,
                   m_eventFilters, cur, deliveryVars, nextEventId, quietCalls,
                   crashed>>
    /\ UNCHANGED otherVars

\* EventDispatcher::publish called while m_running is false: it returns at
\* once and leaves the dispatcher as it was (only the ghost count moves)
publishRejected(p, type) ==
    /\ ~crashed
    /\ pc[p] = "idle"
    /\ ~m_running
    /\ ~everStarted
    /\ ~isEventFiltered(type)
    /\ quietCalls' = Append(quietCalls, m_maxQueueSize)
    /\ UNCHANGED <<lifeVars, queueVars, m_stats, listenerVars, m_eventFilters,
                   pc, cur, deliveryVars, nextEventId, discarded, crashed>>
    /\ UNCHANGED otherVars

\* EventDispatcher::publish and publishImmediate called on a running
\* dispatcher with a filtered type: they return at the filter check
publishFiltered(p, type) ==
    /\ ~crashed
    /\ pc[p] = "idle"
    /\ m_running
    /\ isEventFiltered(type)
    /\ filteredCalls' = filteredCalls + 1
    /\ UNCHANGED <<lifeVars, queueVars, m_stats, listenerVars, m_eventFilters,
                   pc, cur, deliveryVars, nextEventId, discarded, quietCalls,
                   crashed>>
    /\ UNCHANGED <<now, lastActivity, lastDelivery>>
    /\ UNCHANGED notBusVars

\* EventDispatcher::publish, the m_running / filter checks and Event(type, data)
publishCheck(p, type) ==
    /\ ~crashed
    /\ pc[p] = "idle"
    /\ m_running
    /\ ~isEventFiltered(type)
    /\ nextEventId' = nextEventId + 1
    /\ cur' = [cur EXCEPT ![p] = [id |-> nextEventId + 1, type |-> type,
                                  pub |-> p, imm |-> FALSE,
                                  nh |-> m_nextHandle]]
    /\ pc' = [pc EXCEPT ![p] = "enqueue"]
    /\ UNCHANGED <<lifeVars, queueVars, m_stats, listenerVars, m_eventFilters,
                   deliveryVars, discarded, quietCalls, crashed>>
    /\ UNCHANGED otherVars

\* publish with the newest queued event dropped instead of the oldest
QueueAfterPublishDropNewest(q, max, e) ==
    IF Len(q) >= max
    THEN IF q # <<>> THEN {Append(SubSeq(q, 1, Len(q) - 1), e)} ELSE {<<e>>, <<>>}
    ELSE {Append(q, e)}

\* the queue after publish's pop-if-full and push; popping an empty
\* std::queue is undefined: the event is appended or lost
QueueAfterPublish(q, max, e) ==
    IF Len(q) >= max
    THEN IF q # <<>> THEN {Append(Tail(q), e)} ELSE {<<e>>, <<>>}
    ELSE {Append(q, e)}

\* EventDispatcher::publish, the block under m_queueMutex
publishEnqueue(p) ==
    /\ ~crashed
    /\ pc[p] = "enqueue"
    /\ \/ /\ m_eventQueue' \in QueueAfterPublish(m_eventQueue, m_maxQueueSize, cur[p])
          /\ m_stats' = [m_stats EXCEPT
                 !.eventsDropped = IF Len(m_eventQueue) >= m_maxQueueSize
                                   THEN @ + 1 ELSE @,
                 !.eventsPublished = @ + 1,
                 !.queueSize = Len(m_eventQueue')]
          /\ pc' = [pc EXCEPT ![p] = "idle"]
          /\ cur' = [cur EXCEPT ![p] = NoEvent]
          /\ UNCHANGED crashed
       \/ /\ Len(m_eventQueue) >= m_maxQueueSize
          /\ m_eventQueue = <<>>
          /\ crashed' = TRUE
          /\ UNCHANGED <<m_eventQueue, m_stats, pc, cur>>
    /\ UNCHANGED <<lifeVars, m_maxQueueSize, listenerVars, m_eventFilters,
                   deliveryVars, nextEventId, discarded, quietCalls>>
    /\ UNCHANGED otherVars

\* EventDispatcher::publishImmediate, the checks and Event(type, data)
publishImmediate(p, type) ==
    /\ ~crashed
    /\ pc[p] = "idle"
    /\ m_running
    /\ ~isEventFiltered(type)
    /\ nextEventId' = nextEventId + 1
    /\ cur' = [cur EXCEPT ![p] = [id |-> nextEventId + 1, type |-> type,
                                  pub |-> p, imm |-> TRUE, nh |-> m_nextHandle]]
    /\ pc' = [pc EXCEPT ![p] = "collect"]
    /\ UNCHANGED <<lifeVars, queueVars, m_stats, listenerVars, m_eventFilters,
                   deliveryVars, discarded, quietCalls, crashed>>
    /\ UNCHANGED otherVars

\* EventDispatcher::publishImmediate, eventsPublished++ after deliverEvent
publishImmediateCount(p) ==
    /\ ~crashed
    /\ pc[p] = "imm_count"
    /\ m_stats' = [m_stats EXCEPT !.eventsPublished = @ + 1]
    /\ pc' = [pc EXCEPT ![p] = "idle"]
    /\ cur' = [cur EXCEPT ![p] = NoEvent]
    /\ UNCHANGED <<lifeVars, queueVars, listenerVars, m_eventFilters,
                   deliveryVars, nextEventId, discarded, quietCalls, crashed>>
    /\ UNCHANGED otherVars

\* EventDispatcher::processEvents, leaving the loop on m_shouldStop
processEventsExit ==
    /\ ~crashed
    /\ pc[Dispatcher] = "wait"
    /\ m_shouldStop
    /\ pc' = [pc EXCEPT ![Dispatcher] = "done"]
    /\ UNCHANGED <<lifeVars, queueVars, m_stats, listenerVars, m_eventFilters,
                   cur, deliveryVars, nextEventId, discarded, quietCalls,
                   crashed>>
    /\ UNCHANGED otherVars

\* EventDispatcher::processEvents, front() and pop() under m_queueMutex
processEventsPop ==
    /\ ~crashed
    /\ pc[Dispatcher] = "wait"
    /\ ~m_shouldStop
    /\ m_eventQueue # <<>>
    /\ cur' = [cur EXCEPT ![Dispatcher] = Head(m_eventQueue)]
    /\ m_eventQueue' = Tail(m_eventQueue)
    /\ m_stats' = [m_stats EXCEPT !.queueSize = Len(m_eventQueue) - 1]
    /\ pc' = [pc EXCEPT ![Dispatcher] = "collect"]
    /\ UNCHANGED <<lifeVars, m_maxQueueSize, listenerVars, m_eventFilters,
                   deliveryVars, nextEventId, discarded, quietCalls, crashed>>
    /\ UNCHANGED otherVars

\* the listenersToNotify of deliverEvent: global listeners, then the
\* listeners of the event's type, each in registration order
ListenersToNotify(type) ==
    SelectSeq(m_globalListeners, LAMBDA h : h \in DOMAIN m_listeners)
    \o SelectSeq(m_typeListeners[type], LAMBDA h : h \in DOMAIN m_listeners)

\* EventDispatcher::deliverEvent, the collection under m_listenersMutex
deliverEventCollect(t) ==
    /\ ~crashed
    /\ pc[t] = "collect"
    /\ todo' = [todo EXCEPT ![t] = ListenersToNotify(cur[t].type)]
    /\ due' = [due EXCEPT ![t] =
                 {h \in DOMAIN m_listeners :
                     /\ h < cur[t].nh
                     /\ m_listeners[h] \in {GlobalType, cur[t].type}}]
    /\ pc' = [pc EXCEPT ![t] = "deliver"]
    /\ UNCHANGED <<lifeVars, queueVars, m_stats, listenerVars, m_eventFilters,
                   cur, detached, calls, nextEventId, discarded,
                   quietCalls, crashed>>
    /\ lastActivity' = [h \in DOMAIN lastActivity |->
                           IF m_listeners[h] = cur[t].type THEN now
                           ELSE lastActivity[h]]
    /\ lastDelivery' = [h \in DOMAIN lastDelivery
                              \cup {h \in DOMAIN m_listeners :
                                      m_listeners[h] \in {GlobalType, cur[t].type}} |->
                           IF m_listeners[h] \in {GlobalType, cur[t].type}
                           THEN now ELSE lastDelivery[h]]
    /\ UNCHANGED notListenerTimes

\* EventDispatcher::deliverToListener for the next listener of the list,
\* with the catch of deliverEvent around it
deliverToListener(t, outcome) ==
    /\ ~crashed
    /\ pc[t] = "deliver"
    /\ todo[t] # <<>>
    /\ LET h == Head(todo[t])
           call == <<h, cur[t]>>
       IN  CASE outcome \in {"returns", "throws_std"} ->
                  /\ calls' = Append(calls, call)
                  /\ todo' = [todo EXCEPT ![t] = Tail(@)]
                  /\ UNCHANGED <<detached, pc, cur, due, crashed>>
             [] outcome = "throws_other" ->
                  /\ calls' = Append(calls, call)
                  /\ IF t = Dispatcher
                     THEN /\ crashed' = TRUE
                          /\ UNCHANGED <<todo, pc, cur, due>>
                     ELSE /\ todo' = [todo EXCEPT ![t] = <<>>]
                          /\ due' = [due EXCEPT ![t] = {}]
                          /\ pc' = [pc EXCEPT ![t] = "idle"]
                          /\ cur' = [cur EXCEPT ![t] = NoEvent]
                          /\ UNCHANGED crashed
                  /\ UNCHANGED detached
             [] outcome = "blocks" ->
                  /\ calls' = Append(calls, call)
                  /\ todo' = [todo EXCEPT ![t] = Tail(@)]
                  /\ crashed' \in BOOLEAN
                  /\ UNCHANGED <<detached, pc, cur, due>>
             [] outcome = "not_scheduled" ->
                  /\ detached' = detached \cup {call}
                  /\ todo' = [todo EXCEPT ![t] = Tail(@)]
                  /\ UNCHANGED <<calls, pc, cur, due, crashed>>
    /\ UNCHANGED <<lifeVars, queueVars, m_stats, listenerVars, m_eventFilters,
                   nextEventId, discarded, quietCalls>>
    /\ UNCHANGED otherVars

\* the lambda of deliverToListener in a thread detached before it called
\* the listener: it calls through references that no longer exist, and
\* completed.store(true) then writes to a stack frame that is gone
detachedInvoke(d) ==
    /\ ~crashed
    /\ d \in detached
    /\ detached' = detached \ {d}
    /\ \/ /\ calls' = Append(calls, d)
          /\ crashed' \in BOOLEAN
       \/ /\ crashed' = TRUE
          /\ UNCHANGED calls
    /\ UNCHANGED <<lifeVars, queueVars, m_stats, listenerVars, m_eventFilters,
                   pc, cur, todo, due, nextEventId, discarded, quietCalls>>
    /\ UNCHANGED otherVars

\* EventDispatcher::updateStats at the end of deliverEvent
updateStats(t) ==
    /\ ~crashed
    /\ pc[t] = "deliver"
    /\ todo[t] = <<>>
    /\ m_stats' = [m_stats EXCEPT !.eventsDelivered = @ + 1]
    /\ due' = [due EXCEPT ![t] = {}]
    /\ IF t = Dispatcher
       THEN /\ pc' = [pc EXCEPT ![t] = "wait"]
            /\ cur' = [cur EXCEPT ![t] = NoEvent]
       ELSE /\ pc' = [pc EXCEPT ![t] = "imm_count"]
            /\ UNCHANGED cur
    /\ UNCHANGED <<lifeVars, queueVars, listenerVars, m_eventFilters, todo,
                   detached, calls, nextEventId, discarded,
                   quietCalls, crashed>>
    /\ UNCHANGED otherVars

\* EventDispatcher::subscribe
subscribe(type) ==
    /\ ~crashed
    /\ m_nextHandle' = m_nextHandle + 1
    /\ m_listeners' = [h \in DOMAIN m_listeners \cup {m_nextHandle} |->
                         IF h = m_nextHandle THEN type ELSE m_listeners[h]]
    /\ m_typeListeners' = [m_typeListeners EXCEPT ![type] = Append(@, m_nextHandle)]
    /\ m_stats' = [m_stats EXCEPT !.activeListeners = Cardinality(DOMAIN m_listeners')]
    /\ UNCHANGED <<lifeVars, queueVars, m_globalListeners, m_eventFilters, pc,
                   cur, deliveryVars, nextEventId, discarded, quietCalls,
                   crashed>>
    /\ lastActivity' = [h \in DOMAIN m_listeners' |->
                           IF h = m_nextHandle THEN now ELSE lastActivity[h]]
    /\ UNCHANGED lastDelivery
    /\ UNCHANGED notListenerTimes

\* EventDispatcher::subscribeAll
subscribeAll ==
    /\ ~crashed
    /\ m_nextHandle' = m_nextHandle + 1
    /\ m_listeners' = [h \in DOMAIN m_listeners \cup {m_nextHandle} |->
                         IF h = m_nextHandle THEN GlobalType ELSE m_listeners[h]]
    /\ m_globalListeners' = Append(m_globalListeners, m_nextHandle)
    /\ m_stats' = [m_stats EXCEPT !.activeListeners = Cardinality(DOMAIN m_listeners')]
    /\ UNCHANGED <<lifeVars, queueVars, m_typeListeners, m_eventFilters, pc,
                   cur, deliveryVars, nextEventId, discarded, quietCalls,
                   crashed>>
    /\ lastActivity' = [h \in DOMAIN m_listeners' |->
                           IF h = m_nextHandle THEN now ELSE lastActivity[h]]
    /\ UNCHANGED lastDelivery
    /\ UNCHANGED notListenerTimes

\* EventDispatcher::unsubscribe
unsubscribe(handle) ==
    /\ ~crashed
    /\ handle \in DOMAIN m_listeners
    /\ IF m_listeners[handle] # GlobalType
       THEN /\ m_typeListeners' = [m_typeListeners EXCEPT
                   ![m_listeners[handle]] = SeqRemove(@, handle)]
            /\ UNCHANGED m_globalListeners
       ELSE /\ m_globalListeners' = SeqRemove(m_globalListeners, handle)
            /\ UNCHANGED m_typeListeners
    /\ m_listeners' = Restrict(m_listeners, DOMAIN m_listeners \ {handle})
    /\ m_stats' = [m_stats EXCEPT !.activeListeners = Cardinality(DOMAIN m_listeners')]
    /\ UNCHANGED <<lifeVars, queueVars, m_nextHandle, m_eventFilters, pc, cur,
                   deliveryVars, nextEventId, discarded, quietCalls, crashed>>
    /\ lastActivity' = Restrict(lastActivity, DOMAIN m_listeners')
    /\ lastDelivery' = Restrict(lastDelivery, DOMAIN lastDelivery \ {handle})
    /\ UNCHANGED notListenerTimes

\* EventDispatcher::unsubscribeAll
unsubscribeAll ==
    /\ ~crashed
    /\ DOMAIN m_listeners # {}
    /\ m_listeners' = Restrict(m_listeners, {})
    /\ m_typeListeners' = [t \in EventTypes |-> <<>>]
    /\ m_globalListeners' = <<>>
    /\ m_stats' = [m_stats EXCEPT !.activeListeners = 0]
    /\ UNCHANGED <<lifeVars, queueVars, m_nextHandle, m_eventFilters, pc, cur,
                   deliveryVars, nextEventId, discarded, quietCalls, crashed>>
    /\ lastActivity' = <<>>
    /\ lastDelivery' = <<>>
    /\ UNCHANGED notListenerTimes

\* std::chrono::hours(1) of cleanupInactiveListeners, in hours
inactiveThreshold == 1

\* the toRemove of cleanupInactiveListeners
ToRemove ==
    {h \in DOMAIN m_listeners : now - lastActivity[h] > inactiveThreshold}

\* EventDispatcher::cleanupInactiveListeners, called by processEvents when
\* the queue is drained and five minutes have passed since the last cleanup
cleanupInactiveListeners ==
    /\ ~crashed
    /\ pc[Dispatcher] = "wait"
    /\ m_eventQueue = <<>> \/ m_shouldStop
    /\ m_listeners' = Restrict(m_listeners, DOMAIN m_listeners \ ToRemove)
    /\ m_typeListeners' = [type \in EventTypes |->
                              SelectSeq(m_typeListeners[type],
                                        LAMBDA h : h \notin ToRemove)]
    /\ m_globalListeners' = SelectSeq(m_globalListeners,
                                      LAMBDA h : h \notin ToRemove)
    /\ m_stats' = [m_stats EXCEPT !.activeListeners = Cardinality(DOMAIN m_listeners')]
    /\ lastActivity' = Restrict(lastActivity, DOMAIN m_listeners')
    /\ lastDelivery' = Restrict(lastDelivery, DOMAIN lastDelivery \ ToRemove)
    /\ UNCHANGED <<lifeVars, queueVars, m_nextHandle, m_eventFilters, pc, cur,
                   deliveryVars, nextEventId, discarded, quietCalls, crashed>>
    /\ UNCHANGED notListenerTimes

\* an hour passes
tick ==
    /\ now' = now + 1
    /\ UNCHANGED <<lifeVars, queueVars, m_stats, listenerVars, m_eventFilters,
                   pc, cur, deliveryVars, nextEventId, discarded, quietCalls,
                   crashed, filteredCalls, lastActivity, lastDelivery>>
    /\ UNCHANGED notBusVars

\* EventDispatcher::setEventFilter
setEventFilter(type, enabled) ==
    /\ ~crashed
    /\ m_eventFilters[type] # ~enabled
    /\ m_eventFilters' = [m_eventFilters EXCEPT ![type] = ~enabled]
    /\ UNCHANGED <<lifeVars, queueVars, m_stats, listenerVars, pc, cur,
                   deliveryVars, nextEventId, discarded, quietCalls, crashed>>
    /\ UNCHANGED otherVars

\* EventDispatcher::setMaxQueueSize
setMaxQueueSize(maxSize) ==
    /\ ~crashed
    /\ m_maxQueueSize # maxSize
    /\ m_maxQueueSize' = maxSize
    /\ UNCHANGED <<lifeVars, m_eventQueue, m_stats, listenerVars,
                   m_eventFilters, pc, cur, deliveryVars, nextEventId,
                   discarded, quietCalls, crashed>>
    /\ UNCHANGED otherVars

(***************************************************************************)
(* AudioRingBuffer                                                         *)
(***************************************************************************)
\* the frames written are silence: no stream of samples is followed
NoStream == [written |-> 0, read |-> 0, on |-> FALSE]

\* the test stream repeats after StreamPeriod samples, none of them 0.0
StreamPeriod == MaxStreamCapacity + 1

\* sample k of the stream the producer writes
SourceSample(k) == 1 + (k % StreamPeriod)

\* AudioRingBuffer::AudioRingBuffer and the member initializers
InitRing(numSamples) ==
    /\ m_bufferSize = numSamples
    /\ m_readPosition = 0
    /\ m_writePosition = 0
    /\ ringPc = [t \in RingThreads |-> "idle"]
    /\ ringFrame = [t \in RingThreads |-> 0]
    /\ ringLocal = [t \in RingThreads |-> [writePos |-> 0, pos |-> 0]]
    /\ ringResult = [t \in RingThreads |-> "none"]
    /\ m_buffer = [i \in 0..(numSamples - 1) |-> 0]
    /\ ringStream = NoStream

\* the % of C++ on int: the quotient is truncated towards zero, so the
\* remainder has the sign of the dividend
CMod(a, b) == IF a >= 0 THEN a % b ELSE 0 - ((0 - a) % b)

\* AudioRingBuffer::getAvailableToRead on the two loaded positions
AvailableToRead(writePos, readPos) ==
    CMod(writePos - readPos + m_bufferSize, m_bufferSize)

\* AudioRingBuffer::getAvailableToRead
getAvailableToRead == AvailableToRead(m_writePosition, m_readPosition)

\* AudioRingBuffer::getAvailableToWrite
getAvailableToWrite == m_bufferSize - getAvailableToRead - 1

\* the index write() and read() store: (pos + n) % m_bufferSize
AdvanceIndex(pos, n) == CMod(pos + n, m_bufferSize)

\* a call of the ring buffer returns
ringReturn(t, result) ==
    /\ ringPc' = [ringPc EXCEPT ![t] = "idle"]
    /\ ringFrame' = [ringFrame EXCEPT ![t] = 0]
    /\ ringLocal' = [ringLocal EXCEPT ![t] = [writePos |-> 0, pos |-> 0]]
    /\ ringResult' = [ringResult EXCEPT ![t] = result]

\* AudioRingBuffer::write(const AudioBuffer&), the channel check; numSamples
\* is source.getNumSamples()
write(numSamples, channelsMatch) ==
    /\ ringPc["producer"] = "idle"
    /\ IF channelsMatch
       THEN /\ ringPc' = [ringPc EXCEPT !["producer"] = "avail_w"]
            /\ ringFrame' = [ringFrame EXCEPT !["producer"] = numSamples]
            /\ UNCHANGED <<ringLocal, ringResult>>
       ELSE ringReturn("producer", "false")
    /\ UNCHANGED <<m_bufferSize, m_readPosition, m_writePosition>>
    /\ UNCHANGED <<m_buffer, ringStream>>
    /\ UNCHANGED notRingVars

\* AudioRingBuffer::read(AudioBuffer&), the channel check; numSamples is
\* destination.getNumSamples()
read(numSamples, channelsMatch) ==
    /\ ringPc["consumer"] = "idle"
    /\ IF channelsMatch
       THEN /\ ringPc' = [ringPc EXCEPT !["consumer"] = "avail_w"]
            /\ ringFrame' = [ringFrame EXCEPT !["consumer"] = numSamples]
            /\ UNCHANGED <<ringLocal, ringResult>>
       ELSE ringReturn("consumer", "false")
    /\ UNCHANGED <<m_bufferSize, m_readPosition, m_writePosition>>
    /\ UNCHANGED <<m_buffer, ringStream>>
    /\ UNCHANGED notRingVars

\* getAvailableToRead: m_writePosition.load()
availableLoadWritePos(t) ==
    /\ ringPc[t] = "avail_w"
    /\ ringLocal' = [ringLocal EXCEPT ![t].writePos = m_writePosition]
    /\ ringPc' = [ringPc EXCEPT ![t] = "avail_r"]
    /\ UNCHANGED <<m_bufferSize, m_readPosition, m_writePosition, ringFrame,
                   ringResult>>
    /\ UNCHANGED <<m_buffer, ringStream>>
    /\ UNCHANGED notRingVars

\* getAvailableToRead: m_readPosition.load(), and the test of write() /
\* read() on the result
availableLoadReadPos(t) ==
    /\ ringPc[t] = "avail_r"
    /\ LET toRead == AvailableToRead(ringLocal[t].writePos, m_readPosition)
           available == IF t = "producer"
                        THEN m_bufferSize - toRead - 1
                        ELSE toRead
       IN  IF available < ringFrame[t]
           THEN ringReturn(t, "false")
           ELSE /\ ringPc' = [ringPc EXCEPT ![t] = "load"]
                /\ UNCHANGED <<ringFrame, ringLocal, ringResult>>
    /\ UNCHANGED <<m_bufferSize, m_readPosition, m_writePosition>>
    /\ UNCHANGED <<m_buffer, ringStream>>
    /\ UNCHANGED notRingVars

\* the copy loop of write(): bufferData[(writePos + i) % m_bufferSize] =
\* sourceData[i] for i < samplesToWrite; an index outside the buffer is
\* memory that is not a sample of the buffer
copyToBuffer(writePos, samplesToWrite) ==
    [k \in DOMAIN m_buffer |->
        IF \E i \in 0..(samplesToWrite - 1) : CMod(writePos + i, m_bufferSize) = k
        THEN LET i == CHOOSE j \in 0..(samplesToWrite - 1) :
                          /\ CMod(writePos + j, m_bufferSize) = k
                          /\ \A l \in (j + 1)..(samplesToWrite - 1) :
                                 CMod(writePos + l, m_bufferSize) # k
             IN  IF ringStream.on THEN SourceSample(ringStream.written + i)
                                  ELSE 0
        ELSE m_buffer[k]]

\* the samples of the stream after n more of them
StreamAfter(count, n) == (count + (IF n > 0 THEN n ELSE 0)) % StreamPeriod

\* write(): m_writePosition.load(); read(): m_readPosition.load(); and the
\* copy loop that follows, which moves samples and no index
loadPosition(t) ==
    /\ ringPc[t] = "load"
    /\ ringLocal' = [ringLocal EXCEPT ![t].pos =
                        IF t = "producer" THEN m_writePosition
                                          ELSE m_readPosition]
    /\ ringPc' = [ringPc EXCEPT ![t] = "store"]
    /\ IF t = "producer"
       THEN /\ m_buffer' = copyToBuffer(m_writePosition, ringFrame[t])
            /\ ringStream' =
                   IF ringStream.on
                   THEN [ringStream EXCEPT
                            !.written = StreamAfter(@, ringFrame[t])]
                   ELSE ringStream
       ELSE /\ UNCHANGED m_buffer
            /\ ringStream' =
                   IF ringStream.on
                   THEN [ringStream EXCEPT !.read = StreamAfter(@, ringFrame[t])]
                   ELSE ringStream
    /\ UNCHANGED <<m_bufferSize, m_readPosition, m_writePosition, ringFrame,
                   ringResult>>
    /\ UNCHANGED notRingVars

\* write(): m_writePosition.store(...); read(): m_readPosition.store(...)
storePosition(t) ==
    /\ ringPc[t] = "store"
    /\ IF t = "producer"
       THEN /\ m_writePosition' = AdvanceIndex(ringLocal[t].pos, ringFrame[t])
            /\ UNCHANGED m_readPosition
       ELSE /\ m_readPosition' = AdvanceIndex(ringLocal[t].pos, ringFrame[t])
            /\ UNCHANGED m_writePosition
    /\ ringReturn(t, "true")
    /\ UNCHANGED m_bufferSize
    /\ UNCHANGED <<m_buffer, ringStream>>
    /\ UNCHANGED notRingVars

\* AudioRingBuffer::clear: m_readPosition.store(0)
clearReadPosition(t) ==
    /\ ringPc[t] = "idle"
    /\ m_readPosition' = 0
    /\ ringPc' = [ringPc EXCEPT ![t] = "clear_w"]
    /\ UNCHANGED <<m_bufferSize, m_writePosition, ringFrame, ringLocal,
                   ringResult>>
    /\ UNCHANGED <<m_buffer, ringStream>>
    /\ UNCHANGED notRingVars

\* AudioRingBuffer::clear: m_writePosition.store(0) and m_buffer->clear()
clearWritePosition(t) ==
    /\ ringPc[t] = "clear_w"
    /\ m_writePosition' = 0
    /\ ringPc' = [ringPc EXCEPT ![t] = "idle"]
    /\ m_buffer' = [k \in DOMAIN m_buffer |-> 0]
    /\ UNCHANGED <<m_bufferSize, m_readPosition, ringFrame, ringLocal,
                   ringResult, ringStream>>
    /\ UNCHANGED notRingVars

(***************************************************************************)
(* VirtualDeviceRouter                                                     *)
(***************************************************************************)
\* PlatformImpl::scanDevices: the devices present, in enumeration order
scanDevices == SelectSeq(DeviceOrder, LAMBDA d : d \in present)

DeviceError(code) == [type |-> "AudioDeviceError", code |-> code]
DeviceChanged == [type |-> "AudioDeviceChanged", code |-> 0]
ProcessingStarted == [type |-> "AudioProcessingStarted", code |-> 0]
ProcessingStopped == [type |-> "AudioProcessingStopped", code |-> 0]
NoPublish == [type |-> "none", code |-> 0]
NoError == [message |-> "", code |-> 0]

\* double m_outputSampleRate{48000.0}
m_outputSampleRate == 48000

\* AudioBuffer::getSampleRate of the buffers handed to routeAudioBuffer
RouteSampleRates == {44100, m_outputSampleRate}

\* VirtualDeviceRouter::handleDeviceError when the callback is never called
handleDeviceErrorNoCallback(message, code) ==
    /\ lastEvent' = DeviceError(code)
    /\ UNCHANGED lastError

\* VirtualDeviceRouter::handleDeviceError: publishes AudioDeviceError and
\* calls m_errorCallback if it is set
handleDeviceError(message, code) ==
    /\ lastEvent' = DeviceError(code)
    /\ lastError' = IF m_errorCallback
                    THEN [message |-> message, code |-> code]
                    ELSE lastError

NoCall == [name |-> "none", wasInit |-> FALSE, scan |-> {}]
NoReturn == [call |-> "none", result |-> "none", wasInit |-> FALSE,
             scan |-> {}, initialized |-> FALSE, connected |-> FALSE,
             routing |-> FALSE, hotplug |-> FALSE]

\* VirtualDeviceRouter::VirtualDeviceRouter and the member initializers;
\* m_platformImpl is null on a build without platform support
InitRouter(platformImpl, devices) ==
    /\ m_platformImpl = platformImpl
    /\ present = devices
    /\ platformDevice = NoDevice
    /\ m_deviceMutex = "none"
    /\ m_isInitialized = FALSE
    /\ m_isRouting = FALSE
    /\ m_currentDevice = [id |-> NoDevice, isConnected |-> FALSE]
    /\ m_hotPlugRunning = FALSE
    /\ m_buffersRouted = 0
    /\ m_droppedBuffers = 0
    /\ rpc = [t \in RouterThreads |-> IF t = "hotplug" THEN "none" ELSE "idle"]
    /\ rcall = NoCall
    /\ rret = NoReturn
    /\ selecting = [id |-> NoDevice, wasRouting |-> FALSE]
    /\ scanned = {}
    /\ lastEvent = NoPublish
    /\ lastRouteResult = "none"
    /\ routeSubmitted = 0
    /\ routeCompleted = 0
    /\ routeRejected = 0
    /\ reconnectAttempts = 0
    /\ m_errorCallback = FALSE
    /\ lastError = NoError
    /\ routeRate = m_outputSampleRate

platformVars == <<m_platformImpl, present, platformDevice>>
routeVars == <<m_buffersRouted, m_droppedBuffers, lastRouteResult,
               routeSubmitted, routeCompleted, routeRejected,
               reconnectAttempts>>

\* what a call of the application thread left behind when it returned
Return(call, result, wasInit, scan) ==
    [call |-> call, result |-> result, wasInit |-> wasInit, scan |-> scan,
     initialized |-> m_isInitialized',
     connected |-> m_currentDevice'.isConnected,
     routing |-> m_isRouting',
     hotplug |-> m_hotPlugRunning']

\* VirtualDeviceRouter::initialize.  scanForVirtualDevices calls
\* selectVirtualDevice when no device is connected and one is present, and
\* selectVirtualDevice locks m_deviceMutex, which initialize holds.
initialize ==
    /\ rpc["app"] = "idle"
    /\ m_deviceMutex = "none"
    /\ UNCHANGED <<platformVars, m_isRouting, m_currentDevice, selecting,
                   scanned, routeVars>>
    /\ \/ /\ m_isInitialized
          /\ UNCHANGED <<m_deviceMutex, m_isInitialized, m_hotPlugRunning, rpc,
                         rcall, lastEvent, lastError>>
          /\ rret' = Return("initialize", "true", TRUE, {})
       \/ /\ ~m_isInitialized
          /\ ~m_platformImpl
          /\ handleDeviceError("Virtual device routing not supported on this platform", -1)
          /\ UNCHANGED <<m_deviceMutex, m_isInitialized, m_hotPlugRunning, rpc,
                         rcall>>
          /\ rret' = Return("initialize", "false", FALSE, {})
       \/ /\ ~m_isInitialized
          /\ m_platformImpl
          /\ ~m_currentDevice.isConnected
          /\ scanDevices # <<>>
          /\ m_deviceMutex' = "app"
          /\ rpc' = [rpc EXCEPT !["app"] = "relock"]
          /\ rcall' = [name |-> "initialize", wasInit |-> FALSE,
                       scan |-> present]
          /\ UNCHANGED <<m_isInitialized, m_hotPlugRunning, lastEvent, lastError, rret>>
       \/ /\ ~m_isInitialized
          /\ m_platformImpl
          /\ m_currentDevice.isConnected \/ scanDevices = <<>>
          /\ m_hotPlugRunning' = TRUE
          /\ rpc' = [rpc EXCEPT !["hotplug"] = "sleep"]
          /\ m_isInitialized' = TRUE
          /\ lastEvent' = ProcessingStarted /\ UNCHANGED lastError
          /\ UNCHANGED <<m_deviceMutex, rcall>>
          /\ rret' = Return("initialize", "true", FALSE, present)
    /\ UNCHANGED <<m_errorCallback, routeRate>>
    /\ UNCHANGED notRouterVars

\* VirtualDeviceRouter::shutdown.  On an initialized router it calls
\* stopRouting, whose first statement locks m_deviceMutex, which shutdown
\* holds; the statements after that call are never reached.
shutdown ==
    /\ rpc["app"] = "idle"
    /\ m_deviceMutex = "none"
    /\ UNCHANGED <<platformVars, m_isInitialized, m_isRouting, m_currentDevice,
                   m_hotPlugRunning, selecting, scanned, lastEvent, lastError, routeVars>>
    /\ \/ /\ ~m_isInitialized
          /\ UNCHANGED <<m_deviceMutex, rpc, rcall>>
          /\ rret' = Return("shutdown", "void", FALSE, {})
       \/ /\ m_isInitialized
          /\ m_deviceMutex' = "app"
          /\ rpc' = [rpc EXCEPT !["app"] = "relock"]
          /\ rcall' = [name |-> "shutdown", wasInit |-> TRUE, scan |-> {}]
          /\ UNCHANGED rret
    /\ UNCHANGED <<m_errorCallback, routeRate>>
    /\ UNCHANGED notRouterVars

\* std::mutex::lock by the thread that owns the mutex is undefined: the
\* thread blocks for ever, or lock() throws std::system_error and the call
\* of the application is left by the exception (its lock_guard unlocks)
lockOwnedMutex(outcome) ==
    /\ rpc["app"] = "relock"
    /\ UNCHANGED <<platformVars, m_isInitialized, m_isRouting, m_currentDevice,
                   m_hotPlugRunning, selecting, scanned, lastEvent, lastError, routeVars>>
    /\ \/ /\ outcome = "blocks"
          /\ rpc' = [rpc EXCEPT !["app"] = "deadlocked"]
          /\ UNCHANGED <<m_deviceMutex, rcall, rret>>
       \/ /\ outcome = "throws"
          /\ rpc' = [rpc EXCEPT !["app"] = "idle"]
          /\ m_deviceMutex' = "none"
          /\ rcall' = NoCall
          /\ rret' = Return(rcall.name, "exception", rcall.wasInit, rcall.scan)
    /\ UNCHANGED <<m_errorCallback, routeRate>>
    /\ UNCHANGED notRouterVars

\* VirtualDeviceRouter::selectVirtualDevice, up to the closeDevice of the
\* device it was routing to
selectVirtualDevice(deviceId) ==
    /\ rpc["app"] = "idle"
    /\ m_deviceMutex = "none"
    /\ UNCHANGED <<m_platformImpl, present, m_isInitialized, m_currentDevice,
                   m_hotPlugRunning, rcall, scanned, routeVars>>
    /\ \/ /\ ~m_platformImpl
          /\ UNCHANGED <<m_deviceMutex, m_isRouting, platformDevice, rpc,
                         selecting, lastEvent, lastError>>
          /\ rret' = Return("selectVirtualDevice", "false", m_isInitialized, {})
       \/ /\ m_platformImpl
          /\ deviceId \notin present
          /\ handleDeviceError("Virtual device not found", -2)
          /\ UNCHANGED <<m_deviceMutex, m_isRouting, platformDevice, rpc,
                         selecting>>
          /\ rret' = Return("selectVirtualDevice", "false", m_isInitialized, {})
       \/ /\ m_platformImpl
          /\ deviceId \in present
          /\ selecting' = [id |-> deviceId, wasRouting |-> m_isRouting]
          /\ m_isRouting' = FALSE
          /\ platformDevice' = IF m_isRouting THEN NoDevice ELSE platformDevice
          /\ m_deviceMutex' = "app"
          /\ rpc' = [rpc EXCEPT !["app"] = "select_open"]
          /\ UNCHANGED <<lastEvent, lastError, rret>>
    /\ UNCHANGED <<m_errorCallback, routeRate>>
    /\ UNCHANGED notRouterVars

\* VirtualDeviceRouter::selectVirtualDevice from openDevice on; openDevice
\* closes the open device first and can fail
selectVirtualDeviceOpen(opened) ==
    /\ rpc["app"] = "select_open"
    /\ opened => selecting.id \in present
    /\ IF opened
       THEN /\ platformDevice' = selecting.id
            /\ m_currentDevice' = [id |-> selecting.id, isConnected |-> TRUE]
            /\ m_isRouting' = selecting.wasRouting
            /\ lastEvent' = DeviceChanged /\ UNCHANGED lastError
       ELSE /\ platformDevice' = NoDevice
            /\ handleDeviceError("Failed to open virtual device", -3)
            /\ UNCHANGED <<m_currentDevice, m_isRouting>>
    /\ m_deviceMutex' = "none"
    /\ rpc' = [rpc EXCEPT !["app"] = "idle"]
    /\ selecting' = [id |-> NoDevice, wasRouting |-> FALSE]
    /\ UNCHANGED <<m_isInitialized, m_hotPlugRunning>>
    /\ rret' = Return("selectVirtualDevice", IF opened THEN "true" ELSE "false",
                      m_isInitialized, {})
    /\ UNCHANGED <<m_platformImpl, present, rcall, scanned, routeVars>>
    /\ UNCHANGED <<m_errorCallback, routeRate>>
    /\ UNCHANGED notRouterVars

\* VirtualDeviceRouter::startRouting
startRouting ==
    /\ rpc["app"] = "idle"
    /\ m_deviceMutex = "none"
    /\ UNCHANGED <<platformVars, m_deviceMutex, m_isInitialized,
                   m_currentDevice, m_hotPlugRunning, rpc, rcall, selecting,
                   scanned, routeVars>>
    /\ IF m_isRouting
       THEN /\ UNCHANGED <<m_isRouting, lastEvent, lastError>>
            /\ rret' = Return("startRouting", "true", m_isInitialized, {})
       ELSE IF \/ ~m_currentDevice.isConnected
               \/ ~m_platformImpl
               \/ platformDevice = NoDevice
            THEN /\ handleDeviceError("No virtual device connected", -4)
                 /\ UNCHANGED m_isRouting
                 /\ rret' = Return("startRouting", "false", m_isInitialized, {})
            ELSE /\ m_isRouting' = TRUE
                 /\ lastEvent' = ProcessingStarted /\ UNCHANGED lastError
                 /\ rret' = Return("startRouting", "true", m_isInitialized, {})
    /\ UNCHANGED <<m_errorCallback, routeRate>>
    /\ UNCHANGED notRouterVars

\* VirtualDeviceRouter::setErrorCallback; callback is FALSE for an empty
\* std::function
setErrorCallback(callback) ==
    /\ rpc["app"] = "idle"
    /\ m_deviceMutex = "none"
    /\ m_errorCallback' = callback
    /\ UNCHANGED <<platformVars, m_deviceMutex, m_isInitialized, m_isRouting,
                   m_currentDevice, m_hotPlugRunning, rpc, rcall, selecting,
                   scanned, lastEvent, lastError, routeVars, routeRate>>
    /\ rret' = Return("setErrorCallback", "void", m_isInitialized, {})
    /\ UNCHANGED notRouterVars

\* VirtualDeviceRouter::hasVirtualDevice
hasVirtualDevice ==
    m_currentDevice.isConnected /\ m_platformImpl /\ platformDevice # NoDevice

\* VirtualDeviceRouter::stopRouting
stopRouting ==
    /\ rpc["app"] = "idle"
    /\ m_deviceMutex = "none"
    /\ IF m_isRouting
       THEN /\ m_isRouting' = FALSE
            /\ lastEvent' = ProcessingStopped /\ UNCHANGED lastError
       ELSE UNCHANGED <<m_isRouting, lastEvent, lastError>>
    /\ UNCHANGED <<platformVars, m_deviceMutex, m_isInitialized,
                   m_currentDevice, m_hotPlugRunning, rpc, rcall, selecting,
                   scanned, routeVars>>
    /\ rret' = Return("stopRouting", "void", m_isInitialized, {})
    /\ UNCHANGED <<m_errorCallback, routeRate>>
    /\ UNCHANGED notRouterVars

\* VirtualDeviceRouter::setOutputConfiguration.  While routing to a connected
\* device it calls selectVirtualDevice, which locks m_deviceMutex again.
setOutputConfiguration ==
    /\ rpc["app"] = "idle"
    /\ m_deviceMutex = "none"
    /\ UNCHANGED <<platformVars, m_isInitialized, m_isRouting, m_currentDevice,
                   m_hotPlugRunning, selecting, scanned, lastEvent, lastError, routeVars>>
    /\ IF m_isRouting /\ m_currentDevice.isConnected
       THEN /\ m_deviceMutex' = "app"
            /\ rpc' = [rpc EXCEPT !["app"] = "relock"]
            /\ rcall' = [name |-> "setOutputConfiguration",
                         wasInit |-> m_isInitialized, scan |-> {}]
            /\ UNCHANGED rret
       ELSE /\ UNCHANGED <<m_deviceMutex, rpc, rcall>>
            /\ rret' = Return("setOutputConfiguration", "true",
                              m_isInitialized, {})
    /\ UNCHANGED <<m_errorCallback, routeRate>>
    /\ UNCHANGED notRouterVars

\* VirtualDeviceRouter::hotPlugDetectionThread: the sleep is over,
\* m_hotPlugRunning is set, the thread locks m_deviceMutex and scans
hotPlugScan ==
    /\ rpc["hotplug"] = "sleep"
    /\ m_hotPlugRunning
    /\ m_deviceMutex = "none"
    /\ m_deviceMutex' = "hotplug"
    /\ scanned' = present
    /\ rpc' = [rpc EXCEPT !["hotplug"] = "poll"]
    /\ UNCHANGED <<platformVars, m_isInitialized, m_isRouting, m_currentDevice,
                   m_hotPlugRunning, rcall, rret, selecting, lastEvent, lastError,
                   routeVars>>
    /\ UNCHANGED <<m_errorCallback, routeRate>>
    /\ UNCHANGED notRouterVars

\* VirtualDeviceRouter::hotPlugDetectionThread: what the poll does with the
\* scanned devices, up to the unlock; handleDeviceError publishes
\* AudioDeviceError
hotPlugPoll ==
    /\ rpc["hotplug"] = "poll"
    /\ IF m_currentDevice.isConnected
       THEN IF m_currentDevice.id \notin scanned
            THEN /\ m_currentDevice' = [m_currentDevice EXCEPT
                                           !.isConnected = FALSE]
                 /\ handleDeviceError("Virtual device disconnected", -6)
            ELSE UNCHANGED <<m_currentDevice, lastEvent, lastError>>
       ELSE /\ lastEvent' = IF scanned # {} THEN DeviceChanged ELSE lastEvent
            /\ UNCHANGED lastError
            /\ UNCHANGED m_currentDevice
    /\ m_deviceMutex' = "none"
    /\ scanned' = {}
    /\ rpc' = [rpc EXCEPT !["hotplug"] = "sleep"]
    /\ UNCHANGED <<platformVars, m_isInitialized, m_isRouting,
                   m_hotPlugRunning, rcall, rret, selecting, routeVars>>
    /\ UNCHANGED <<m_errorCallback, routeRate>>
    /\ UNCHANGED notRouterVars

\* a virtual device is installed or appears
plug(d) ==
    /\ d \notin present
    /\ present' = present \cup {d}
    /\ UNCHANGED <<m_platformImpl, platformDevice, m_deviceMutex,
                   m_isInitialized, m_isRouting, m_currentDevice,
                   m_hotPlugRunning, rpc, rcall, rret, selecting, scanned,
                   lastEvent, lastError, routeVars>>
    /\ UNCHANGED <<m_errorCallback, routeRate>>
    /\ UNCHANGED notRouterVars

\* a virtual device disappears; the handle the platform layer holds stays
unplug(d) ==
    /\ d \in present
    /\ present' = present \ {d}
    /\ UNCHANGED <<m_platformImpl, platformDevice, m_deviceMutex,
                   m_isInitialized, m_isRouting, m_currentDevice,
                   m_hotPlugRunning, rpc, rcall, rret, selecting, scanned,
                   lastEvent, lastError, routeVars>>
    /\ UNCHANGED <<m_errorCallback, routeRate>>
    /\ UNCHANGED notRouterVars

\* VirtualDeviceRouter::routeAudioBuffer, the test of m_isRouting, for a
\* buffer with the sample rate sampleRate; handleBufferConversion copies
\* the channels of a buffer of another format and does not resample
routeAudioBuffer(sampleRate) ==
    /\ rpc["audio"] = "idle"
    /\ IF ~m_isRouting \/ ~m_platformImpl
       THEN /\ lastRouteResult' = "false"
            /\ routeRejected' = routeRejected + 1
            /\ UNCHANGED <<rpc, routeSubmitted, routeRate>>
       ELSE /\ rpc' = [rpc EXCEPT !["audio"] = "write"]
            /\ routeSubmitted' = routeSubmitted + 1
            /\ routeRate' = sampleRate
            /\ UNCHANGED <<lastRouteResult, routeRejected>>
    /\ UNCHANGED <<platformVars, m_deviceMutex, m_isInitialized, m_isRouting,
                   m_currentDevice, m_hotPlugRunning, rcall, rret, selecting,
                   scanned, lastEvent, lastError, m_buffersRouted, m_droppedBuffers,
                   routeCompleted, reconnectAttempts>>
    /\ UNCHANGED m_errorCallback
    /\ UNCHANGED notRouterVars

\* the counters when a failed write is not counted
CountersAfterWriteSuccessOnly(routed, dropped, success) ==
    IF success THEN <<routed + 1, dropped>> ELSE <<routed, dropped>>

\* routeAudioBuffer: m_buffersRouted++ on success, m_droppedBuffers++ otherwise
CountersAfterWrite(routed, dropped, success) ==
    IF success THEN <<routed + 1, dropped>> ELSE <<routed, dropped + 1>>

\* VirtualDeviceRouter::routeAudioBuffer from writeAudio on; writeAudio fails
\* when no device is open and can fail when one is
routeWriteAudio(success) ==
    /\ rpc["audio"] = "write"
    /\ success => platformDevice # NoDevice
    /\ m_buffersRouted' =
           CountersAfterWrite(m_buffersRouted, m_droppedBuffers, success)[1]
    /\ m_droppedBuffers' =
           CountersAfterWrite(m_buffersRouted, m_droppedBuffers, success)[2]
    /\ IF ~success /\ platformDevice = NoDevice
       THEN /\ handleDeviceError("Virtual device disconnected", -5)
            /\ rpc' = [rpc EXCEPT !["audio"] = "reconnect"]
            /\ reconnectAttempts' = reconnectAttempts + 1
            /\ UNCHANGED <<lastRouteResult, routeCompleted>>
       ELSE /\ rpc' = [rpc EXCEPT !["audio"] = "idle"]
            /\ lastRouteResult' = IF success THEN "true" ELSE "false"
            /\ routeCompleted' = routeCompleted + 1
            /\ reconnectAttempts' = 0
            /\ UNCHANGED <<lastEvent, lastError, lastError>>
    /\ UNCHANGED <<platformVars, m_deviceMutex, m_isInitialized, m_isRouting,
                   m_currentDevice, m_hotPlugRunning, rcall, rret, selecting,
                   scanned, routeSubmitted, routeRejected>>
    /\ UNCHANGED <<m_errorCallback, routeRate>>
    /\ UNCHANGED notRouterVars

\* VirtualDeviceRouter::attemptDeviceReconnection, called by routeAudioBuffer
\* without m_deviceMutex, and the return of routeAudioBuffer
attemptDeviceReconnection(opened) ==
    /\ rpc["audio"] = "reconnect"
    /\ opened => (m_currentDevice.id # NoDevice /\ m_currentDevice.id \in present)
    /\ IF opened
       THEN /\ platformDevice' = m_currentDevice.id
            /\ m_currentDevice' = [m_currentDevice EXCEPT !.isConnected = TRUE]
            /\ lastEvent' = DeviceChanged /\ UNCHANGED lastError
            /\ reconnectAttempts' = 0
       ELSE /\ platformDevice' = IF m_currentDevice.id = NoDevice
                                   THEN platformDevice ELSE NoDevice
            /\ UNCHANGED <<m_currentDevice, lastEvent, lastError, reconnectAttempts>>
    /\ rpc' = [rpc EXCEPT !["audio"] = "idle"]
    /\ lastRouteResult' = "false"
    /\ routeCompleted' = routeCompleted + 1
    /\ UNCHANGED <<m_platformImpl, present, m_deviceMutex, m_isInitialized,
                   m_isRouting, m_hotPlugRunning, rcall, rret, selecting,
                   scanned, m_buffersRouted, m_droppedBuffers, routeSubmitted,
                   routeRejected>>
    /\ UNCHANGED <<m_errorCallback, routeRate>>
    /\ UNCHANGED notRouterVars

(***************************************************************************)
(* NoiseReductionProcessor                                                 *)
(*                                                                         *)
(* A frame (AudioBuffer) is the sequence of its channels, each a sequence  *)
(* of samples; the frames handed to process() hold whole numbers of        *)
(* samples. RNNoise is a library outside the repository: processFrame      *)
(* stands in for it by a fixed attenuation of every sample.                *)
(***************************************************************************)
NoNrCall == [call |-> "none"]

Min(a, b) == IF a < b THEN a ELSE b

Zeros(n) == [i \in 1..n |-> 0]

SampleSeqs(S, n) == [1..n -> S]

\* AudioBuffer(): no channels; AudioBuffer(1, n, rate); AudioBuffer(2, n, rate)
Frames ==
    {<<>>}
    \cup UNION {{<<s>> : s \in SampleSeqs(InputSamples, n)} : n \in 0..MaxFrameSamples}
    \cup UNION {{<<s, t>> : s, t \in SampleSeqs(InputSamples, n)} :
                n \in 0..MaxFrameSamples}

getNumChannels(frame) == Len(frame)

getNumSamples(frame) == IF Len(frame) = 0 THEN 0 ELSE Len(frame[1])

isEmpty(frame) == getNumChannels(frame) = 0 \/ getNumSamples(frame) = 0

\* the frame with the channel 0 of frame and the other input sample in every
\* sample of channel 1
Twin(frame) ==
    IF getNumChannels(frame) < 2
    THEN frame
    ELSE <<frame[1], [i \in 1..getNumSamples(frame) |->
                           CHOOSE v \in InputSamples : v # frame[2][i]]>>

\* AudioBuffer::convertToMono, and monoBuffer = buffer for one channel
convertToMono(frame) ==
    IF getNumChannels(frame) = 1
    THEN frame[1]
    ELSE [i \in 1..getNumSamples(frame) |-> (frame[1][i] + frame[2][i]) \div 2]

\* AudioBuffer::convertToStereo of a mono buffer, and buffer = monoBuffer
convertBack(frame, mono) ==
    IF getNumChannels(frame) = 1 THEN <<mono>> ELSE <<mono, mono>>

processFrameSample(sample) == sample \div 2

\* resampleFrame(m_workingBuffer, m_tempBuffer, RNNOISE_FRAME_SIZE, true)
\* writes outputSize samples into the RNNOISE_FRAME_SIZE samples of
\* m_tempBuffer
resampleOutputSize(sampleRate) ==
    (RNNOISE_FRAME_SIZE * RNNOISE_SAMPLE_RATE) \div sampleRate

resampleOverflows(needsResampling, sampleRate) ==
    /\ needsResampling
    /\ RNNOISE_SAMPLE_RATE > sampleRate
    /\ resampleOutputSize(sampleRate) > RNNOISE_FRAME_SIZE

\* the indices resampleFrame(input, output, RNNOISE_FRAME_SIZE, upsample)
\* reads from input, m_resampleRatio being RNNOISE_SAMPLE_RATE / sampleRate
resampleReads(sampleRate, upsample) ==
    LET frameSize == RNNOISE_FRAME_SIZE
        outputSize == (frameSize * RNNOISE_SAMPLE_RATE) \div sampleRate
        Src(i) == IF upsample
                  THEN (i * sampleRate) \div RNNOISE_SAMPLE_RATE
                  ELSE (i * RNNOISE_SAMPLE_RATE) \div sampleRate
        inputSize == IF upsample THEN frameSize ELSE outputSize
    IN  IF RNNOISE_SAMPLE_RATE > sampleRate
        THEN UNION {IF Src(i) < inputSize - 1
                    THEN {Src(i), Src(i) + 1} ELSE {inputSize - 1} :
                    i \in 0..((IF upsample THEN outputSize ELSE frameSize) - 1)}
        ELSE 0..(frameSize - 1)

\* the indices it writes to output
resampleWrites(sampleRate, upsample) ==
    IF upsample /\ RNNOISE_SAMPLE_RATE > sampleRate
    THEN 0..(((RNNOISE_FRAME_SIZE * RNNOISE_SAMPLE_RATE) \div sampleRate) - 1)
    ELSE 0..(RNNOISE_FRAME_SIZE - 1)

\* processMonoBuffer without the erase of line 279
processMonoBufferNoErase(inputQueue, outputQueue, mono) ==
    LET numSamples == Len(mono)
        queue == inputQueue \o mono
        frames == Len(queue) \div RNNOISE_FRAME_SIZE
        taken == frames * RNNOISE_FRAME_SIZE
        processed == [i \in 1..taken |-> processFrameSample(queue[i])]
        pending == outputQueue \o processed
        samplesToOutput == Min(Len(pending), numSamples)
    IN  [frames |-> frames,
         queued |-> queue,
         inputQueue |-> queue,
         pending |-> pending,
         samplesToOutput |-> samplesToOutput,
         outputQueue |-> SubSeq(pending, samplesToOutput + 1, Len(pending)),
         data |-> IF samplesToOutput > 0
                  THEN SubSeq(pending, 1, samplesToOutput)
                       \o Zeros(numSamples - samplesToOutput)
                  ELSE mono]

\* processMonoBuffer: the queues and the samples of the buffer afterwards
processMonoBuffer(inputQueue, outputQueue, mono) ==
    LET numSamples == Len(mono)
        queue == inputQueue \o mono
        frames == Len(queue) \div RNNOISE_FRAME_SIZE
        taken == frames * RNNOISE_FRAME_SIZE
        processed == [i \in 1..taken |-> processFrameSample(queue[i])]
        pending == outputQueue \o processed
        samplesToOutput == Min(Len(pending), numSamples)
    IN  [frames |-> frames,
         queued |-> queue,
         inputQueue |-> SubSeq(queue, taken + 1, Len(queue)),
         pending |-> pending,
         samplesToOutput |-> samplesToOutput,
         outputQueue |-> SubSeq(pending, samplesToOutput + 1, Len(pending)),
         data |-> IF samplesToOutput > 0
                  THEN SubSeq(pending, 1, samplesToOutput)
                       \o Zeros(numSamples - samplesToOutput)
                  ELSE mono]

InitNr ==
    /\ nr_isInitialized = FALSE
    /\ m_enabled = TRUE
    /\ m_config = [enabled |-> TRUE, level |-> "Medium"]
    /\ m_sampleRate = RNNOISE_SAMPLE_RATE
    /\ m_needsResampling = FALSE
    /\ m_rnnoise = FALSE
    /\ m_rnnoiseRight = FALSE
    /\ m_inputQueue = <<>>
    /\ m_outputQueue = <<>>
    /\ nrStats = [framesProcessed |-> 0]
    /\ nrPc = "idle"
    /\ nrLife = "constructed"
    /\ nrRet = NoNrCall

\* everything process() can read or write, but the frame
nrState == <<nr_isInitialized, m_enabled, m_config, m_sampleRate,
             m_needsResampling, m_rnnoise, m_rnnoiseRight, m_inputQueue,
             m_outputQueue, nrStats>>

nrQueues == <<m_inputQueue, m_outputQueue>>

nrModels == <<m_rnnoise, m_rnnoiseRight>>

nrFormat == <<m_sampleRate, m_needsResampling>>

\* what a call left behind: its frame before and after, the frame of the twin
\* call afterwards, the output queue before it was drained, and whether the
\* call changed the processor (ghost)
NrReturn(call, result, events, frame, out, twin, twinOut, pending) ==
    [call |-> call, result |-> result, events |-> events,
     frame |-> frame, out |-> out, twin |-> twin, twinOut |-> twinOut,
     pending |-> pending,
     wasInit |-> nr_isInitialized, wasEnabled |-> m_enabled,
     changed |-> (nrState' # nrState)]

NrReturnOf(call, result, events) ==
    NrReturn(call, result, events, <<>>, <<>>, <<>>, <<>>, <<>>)

\* bool initialize(double sampleRate); created: rnnoise_create() returns
\* two states
nrInitialize(sampleRate, created) ==
    /\ nrPc = "idle"
    /\ IF nr_isInitialized
       THEN /\ UNCHANGED <<nrState, nrLife>>
            /\ nrRet' = NrReturnOf("initialize", "true", <<>>)
       ELSE /\ m_sampleRate' = sampleRate
            /\ m_needsResampling' = (sampleRate # RNNOISE_SAMPLE_RATE)
            /\ UNCHANGED <<m_enabled, m_config, nrQueues>>
            /\ IF ~created
               THEN /\ UNCHANGED <<nr_isInitialized, nrModels, nrStats, nrLife>>
                    /\ nrRet' = NrReturnOf("initialize", "false", <<>>)
               ELSE /\ m_rnnoise' = TRUE
                    /\ m_rnnoiseRight' = TRUE
                    /\ nrStats' = [framesProcessed |-> 0]
                    /\ nr_isInitialized' = TRUE
                    /\ nrLife' = IF nrLife = "constructed"
                                 THEN "initialized" ELSE "reinitialized"
                    /\ nrRet' = NrReturnOf("initialize", "true",
                                           <<"AudioProcessingStarted">>)
    /\ UNCHANGED nrPc
    /\ UNCHANGED notNrVars

\* void shutdown()
nrShutdown ==
    /\ nrPc = "idle"
    /\ IF ~nr_isInitialized
       THEN /\ UNCHANGED <<nrState, nrLife>>
            /\ nrRet' = NrReturnOf("shutdown", "void", <<>>)
       ELSE /\ m_rnnoise' = FALSE
            /\ m_rnnoiseRight' = FALSE
            /\ nr_isInitialized' = FALSE
            /\ nrLife' = IF nrLife = "constructed" THEN nrLife ELSE "shutdown"
            /\ UNCHANGED <<m_enabled, m_config, nrFormat, nrQueues, nrStats>>
            /\ nrRet' = NrReturnOf("shutdown", "void",
                                   <<"AudioProcessingStopped">>)
    /\ UNCHANGED nrPc
    /\ UNCHANGED notNrVars

\* void setEnabled(bool enabled)
setEnabled(enabled) ==
    /\ nrPc = "idle"
    /\ m_enabled' = enabled
    /\ m_config' = IF m_enabled # enabled
                   THEN [m_config EXCEPT !.enabled = enabled] ELSE m_config
    /\ UNCHANGED <<nr_isInitialized, nrFormat, nrModels, nrQueues, nrStats,
                   nrLife, nrPc>>
    /\ nrRet' = NrReturnOf("setEnabled", "void",
                           IF m_enabled # enabled
                           THEN <<"NoiseReductionToggled">> ELSE <<>>)
    /\ UNCHANGED notNrVars

(***************************************************************************)
(* NoiseReductionProcessor: setConfig, setEnabled and setLevel called by   *)
(* several threads.  m_enabled is a std::atomic<bool>; m_config is written *)
(* under m_statsMutex.                                                     *)
(***************************************************************************)
Levels == {"Low", "Medium", "High"}

Configs == [enabled : BOOLEAN, level : Levels]

InitCfg ==
    /\ cfgPc = [t \in NrThreads |-> "idle"]
    /\ cfgArg = [t \in NrThreads |-> FALSE]

\* m_statsMutex is held by the thread inside setConfig
statsMutexFree == \A t \in NrThreads : cfgPc[t] # "setConfig_store"

\* setConfig: std::lock_guard lock(m_statsMutex); m_config = config;
setConfigAssign(t, config) ==
    /\ cfgPc[t] = "idle"
    /\ statsMutexFree
    /\ m_config' = config
    /\ cfgPc' = [cfgPc EXCEPT ![t] = "setConfig_store"]
    /\ cfgArg' = [cfgArg EXCEPT ![t] = config.enabled]
    /\ UNCHANGED m_enabled
    /\ UNCHANGED notCfgVars

\* setConfig: m_enabled.store(config.enabled); the event; return
setConfigStore(t) ==
    /\ cfgPc[t] = "setConfig_store"
    /\ m_enabled' = cfgArg[t]
    /\ cfgPc' = [cfgPc EXCEPT ![t] = "idle"]
    /\ UNCHANGED <<m_config, cfgArg>>
    /\ UNCHANGED notCfgVars

\* setEnabled: bool wasEnabled = m_enabled.exchange(enabled);
setEnabledExchange(t, enabled) ==
    /\ cfgPc[t] = "idle"
    /\ m_enabled' = enabled
    /\ cfgPc' = [cfgPc EXCEPT ![t] = IF m_enabled # enabled
                                     THEN "setEnabled_config" ELSE "idle"]
    /\ cfgArg' = [cfgArg EXCEPT ![t] = enabled]
    /\ UNCHANGED m_config
    /\ UNCHANGED notCfgVars

\* setEnabled: std::lock_guard lock(m_statsMutex); m_config.enabled = enabled;
setEnabledConfig(t) ==
    /\ cfgPc[t] = "setEnabled_config"
    /\ statsMutexFree
    /\ m_config' = [m_config EXCEPT !.enabled = cfgArg[t]]
    /\ cfgPc' = [cfgPc EXCEPT ![t] = "idle"]
    /\ UNCHANGED <<m_enabled, cfgArg>>
    /\ UNCHANGED notCfgVars

\* void setLevel(NoiseReductionConfig::Level level)
setLevel(t, level) ==
    /\ cfgPc[t] = "idle"
    /\ statsMutexFree
    /\ m_config' = [m_config EXCEPT !.level = level]
    /\ UNCHANGED <<m_enabled, cfgVars>>
    /\ UNCHANGED notCfgVars

(***************************************************************************)
(* NoiseReductionProcessor::applyReductionLevel.  voiceProb and            *)
(* config.threshold are in tenths, reductionStrength is in 1/2000, and the *)
(* samples of the frame afterwards are in 1/20000 of the unit of the       *)
(* samples before, so that every product of the code is an integer.        *)
(***************************************************************************)
ShapeLevels == {"Low", "Medium", "High"}

\* the probabilities and thresholds, in tenths
Tenths == {0, 2, 5, 8, 10}

ShapeSamples == {-4, 0, 4}

ShapeFrames == UNION {[1..n -> ShapeSamples] : n \in 0..2}

ShapeConfigs == [level : ShapeLevels, threshold : Tenths, adaptiveMode : BOOLEAN]

\* switch (config.level): 0.5f, 0.7f, 0.9f
levelStrength(level) ==
    CASE level = "Low" -> 1000
      [] level = "Medium" -> 1400
      [] level = "High" -> 1800

\* frame[i] *= (1.0f - reductionStrength * 0.3f)
attenuate(frame, reductionStrength) ==
    [i \in 1..Len(frame) |-> frame[i] * (20000 - 3 * reductionStrength)]

\* applyReductionLevel with the strength reduced whenever adaptiveMode is set
applyReductionLevelAlwaysAdaptive(config, frame, voiceProb) ==
    LET strength == levelStrength(config.level)
        reductionStrength ==
            IF config.adaptiveMode
            THEN (strength * (20 - voiceProb)) \div 20
            ELSE strength
    IN  IF voiceProb < config.threshold
        THEN attenuate(frame, reductionStrength)
        ELSE attenuate(frame, 0)

\* applyReductionLevel(frame, frameSize, voiceProb), config being m_config
applyReductionLevel(config, frame, voiceProb) ==
    LET strength == levelStrength(config.level)
        reductionStrength ==
            IF config.adaptiveMode /\ voiceProb > config.threshold
            THEN (strength * (20 - voiceProb)) \div 20
            ELSE strength
    IN  IF voiceProb < config.threshold
        THEN attenuate(frame, reductionStrength)
        ELSE attenuate(frame, 0)

NoShapeCall == [called |-> FALSE]

InitShape == shapeCall = NoShapeCall

\* a call of applyReductionLevel
shape(config, frame, voiceProb) ==
    /\ shapeCall' = [called |-> TRUE, config |-> config, frame |-> frame,
                     voiceProb |-> voiceProb,
                     out |-> applyReductionLevel(config, frame, voiceProb)]
    /\ UNCHANGED notShapeVars

ProcessRejectsEmptyOnly(initialized, frame) == isEmpty(frame)

\* if (!m_isInitialized || buffer.isEmpty()) return false;
ProcessRejects(initialized, frame) == ~initialized \/ isEmpty(frame)

BypassedNever(enabled) == FALSE

\* if (!m_enabled.load()) return true;
Bypassed(enabled) == ~enabled

\* bool process(AudioBuffer& buffer), called with frame; twin is a second
\* frame with the same channel 0, processed from the same state, and
\* outcome is what writing past the end of m_tempBuffer leads to
process(frame, outcome) ==
    LET twin == Twin(frame) IN
    /\ nrPc = "idle"
    /\ IF ProcessRejects(nr_isInitialized, frame)
       THEN /\ UNCHANGED <<nrState, nrPc>>
            /\ nrRet' = NrReturn("process", "false", <<>>, frame, frame,
                                 twin, twin, <<>>)
       ELSE IF Bypassed(m_enabled)
       THEN /\ UNCHANGED <<nrState, nrPc>>
            /\ nrRet' = NrReturn("process", "true", <<>>, frame, frame,
                                 twin, twin, <<>>)
       ELSE LET r == processMonoBuffer(m_inputQueue, m_outputQueue,
                                       convertToMono(frame))
                rt == processMonoBuffer(m_inputQueue, m_outputQueue,
                                        convertToMono(twin))
            IN  IF /\ r.frames > 0
                   /\ resampleOverflows(m_needsResampling, m_sampleRate)
                   /\ outcome = "crashes"
                THEN /\ nrPc' = "crashed"
                     /\ m_inputQueue' = r.queued
                     /\ UNCHANGED <<nr_isInitialized, m_enabled, m_config,
                                    nrFormat, nrModels, m_outputQueue, nrStats>>
                     /\ nrRet' = NoNrCall
                ELSE IF r.frames > 0 /\ ~m_rnnoise
                THEN /\ m_inputQueue' = r.queued
                     /\ UNCHANGED <<nr_isInitialized, m_enabled, m_config,
                                    nrFormat, nrModels, m_outputQueue, nrStats,
                                    nrPc>>
                     /\ nrRet' = NrReturn("process", "false", <<>>, frame,
                                          frame, twin, twin, <<>>)
                ELSE /\ m_inputQueue' = r.inputQueue
                     /\ m_outputQueue' = r.outputQueue
                     /\ nrStats' = [nrStats EXCEPT !.framesProcessed = @ + 1]
                     /\ UNCHANGED <<nr_isInitialized, m_enabled, m_config,
                                    nrFormat, nrModels, nrPc>>
                     /\ nrRet' = NrReturn("process", "true", <<>>, frame,
                                          convertBack(frame, r.data), twin,
                                          convertBack(twin, rt.data),
                                          r.pending)
    /\ UNCHANGED nrLife
    /\ UNCHANGED notNrVars

(***************************************************************************)
(* NoiseReductionProcessor: process() called by several threads.  The      *)
(* queues and m_workingBuffer are plain std::vector members that           *)
(* processMonoBuffer reads and writes without a lock; a thread takes one   *)
(* statement of processMonoBuffer per step.                                *)
(***************************************************************************)
\* the i-th sample of the frame thread t calls process() with
ThreadSample(t, i) == 4 * (2 * ((t - 1) * MaxFrameSamples + i) + 1)

ThreadFrame(t, n) == [i \in 1..n |-> ThreadSample(t, i)]

InitNrThreads ==
    /\ nrtPc = [t \in NrThreads |-> "idle"]
    /\ nrtFrame = [t \in NrThreads |-> <<>>]
    /\ nrtDrained = [t \in NrThreads |-> <<>>]
    /\ nrtResult = [t \in NrThreads |-> "none"]
    /\ m_workingBuffer = <<>>

\* process(buffer) up to the call of processMonoBuffer, buffer being a mono
\* frame of n samples
nrtProcess(t, n) ==
    /\ nrtPc[t] = "idle"
    /\ nrPc = "idle"
    /\ nr_isInitialized
    /\ IF Bypassed(m_enabled)
       THEN /\ nrtPc' = [nrtPc EXCEPT ![t] = "done"]
            /\ nrtResult' = [nrtResult EXCEPT ![t] = "true"]
            /\ UNCHANGED nrtFrame
       ELSE /\ nrtPc' = [nrtPc EXCEPT ![t] = "insert"]
            /\ nrtFrame' = [nrtFrame EXCEPT ![t] = ThreadFrame(t, n)]
            /\ UNCHANGED nrtResult
    /\ UNCHANGED <<nrtDrained, m_workingBuffer, nrVars, notNrThreadVars>>

\* m_inputQueue.insert(m_inputQueue.end(), data, data + numSamples)
nrtInsert(t) ==
    /\ nrtPc[t] = "insert"
    /\ m_inputQueue' = m_inputQueue \o nrtFrame[t]
    /\ nrtPc' = [nrtPc EXCEPT ![t] = "loop"]
    /\ UNCHANGED <<nrtFrame, nrtDrained, nrtResult, m_workingBuffer>>
    /\ UNCHANGED <<nr_isInitialized, m_enabled, m_config, nrFormat, nrModels,
                   m_outputQueue, nrStats, nrPc, nrLife, nrRet>>
    /\ UNCHANGED notNrThreadVars

\* while (m_inputQueue.size() >= RNNOISE_FRAME_SIZE) and the std::copy of the
\* first frame of the queue into m_workingBuffer
nrtLoop(t) ==
    /\ nrtPc[t] = "loop"
    /\ IF Len(m_inputQueue) >= RNNOISE_FRAME_SIZE
       THEN /\ m_workingBuffer' = SubSeq(m_inputQueue, 1, RNNOISE_FRAME_SIZE)
            /\ nrtPc' = [nrtPc EXCEPT ![t] = "frame"]
       ELSE /\ UNCHANGED m_workingBuffer
            /\ nrtPc' = [nrtPc EXCEPT ![t] = "drain"]
    /\ UNCHANGED <<nrtFrame, nrtDrained, nrtResult, nrVars, notNrThreadVars>>

\* processFrame(m_workingBuffer.data(), RNNOISE_FRAME_SIZE) and
\* m_outputQueue.insert(m_outputQueue.end(), m_workingBuffer.begin(), ...)
nrtProcessFrame(t) ==
    /\ nrtPc[t] = "frame"
    /\ LET processed == [i \in 1..Len(m_workingBuffer) |->
                            processFrameSample(m_workingBuffer[i])]
       IN  /\ m_workingBuffer' = processed
           /\ m_outputQueue' = m_outputQueue \o processed
    /\ nrtPc' = [nrtPc EXCEPT ![t] = "erase"]
    /\ UNCHANGED <<nrtFrame, nrtDrained, nrtResult>>
    /\ UNCHANGED <<nr_isInitialized, m_enabled, m_config, nrFormat, nrModels,
                   m_inputQueue, nrStats, nrPc, nrLife, nrRet>>
    /\ UNCHANGED notNrThreadVars

\* m_inputQueue.erase(m_inputQueue.begin(),
\*                    m_inputQueue.begin() + RNNOISE_FRAME_SIZE): undefined
\* when the queue holds fewer samples
nrtErase(t) ==
    /\ nrtPc[t] = "erase"
    /\ IF Len(m_inputQueue) < RNNOISE_FRAME_SIZE
       THEN /\ nrtPc' = [nrtPc EXCEPT ![t] = "outOfRange"]
            /\ UNCHANGED m_inputQueue
       ELSE /\ m_inputQueue' = SubSeq(m_inputQueue, RNNOISE_FRAME_SIZE + 1,
                                      Len(m_inputQueue))
            /\ nrtPc' = [nrtPc EXCEPT ![t] = "loop"]
    /\ UNCHANGED <<nrtFrame, nrtDrained, nrtResult, m_workingBuffer>>
    /\ UNCHANGED <<nr_isInitialized, m_enabled, m_config, nrFormat, nrModels,
                   m_outputQueue, nrStats, nrPc, nrLife, nrRet>>
    /\ UNCHANGED notNrThreadVars

\* the drain of m_outputQueue into the buffer, the return of
\* processMonoBuffer and updateStats
nrtDrain(t) ==
    /\ nrtPc[t] = "drain"
    /\ LET samplesToOutput == Min(Len(m_outputQueue), Len(nrtFrame[t]))
       IN  /\ nrtDrained' = [nrtDrained EXCEPT
                                ![t] = SubSeq(m_outputQueue, 1, samplesToOutput)]
           /\ m_outputQueue' = SubSeq(m_outputQueue, samplesToOutput + 1,
                                      Len(m_outputQueue))
    /\ nrStats' = [nrStats EXCEPT !.framesProcessed = @ + 1]
    /\ nrtPc' = [nrtPc EXCEPT ![t] = "done"]
    /\ nrtResult' = [nrtResult EXCEPT ![t] = "true"]
    /\ UNCHANGED <<nrtFrame, m_workingBuffer>>
    /\ UNCHANGED <<nr_isInitialized, m_enabled, m_config, nrFormat, nrModels,
                   m_inputQueue, nrPc, nrLife, nrRet>>
    /\ UNCHANGED notNrThreadVars

(***************************************************************************)
(* AudioDeviceManager                                                      *)
(***************************************************************************)
NoAdmCall == [name |-> "none", args |-> <<>>]

\* what a call or callback of the manager left behind (ghost)
AdmReturn(call, result, events, args) ==
    [call |-> call, result |-> result, events |-> events, args |-> args,
     wasInit |-> adm_isInitialized, wasActive |-> m_isAudioActive,
     initialized |-> adm_isInitialized', active |-> m_isAudioActive',
     sampleRate |-> m_currentSampleRate', bufferSize |-> m_currentBufferSize']

\* AudioDeviceManager::AudioDeviceManager and the member initializers
InitAdm ==
    /\ m_mutex = "none"
    /\ adm_isInitialized = FALSE
    /\ m_isAudioActive = FALSE
    /\ m_currentSampleRate = DefaultSampleRate
    /\ m_currentBufferSize = DefaultBufferSize
    /\ audioCallbackAdded = FALSE
    /\ admPc = "idle"
    /\ admCall = NoAdmCall
    /\ admRet = [call |-> "none", result |-> "none", events |-> <<>>,
                 args |-> <<>>, wasInit |-> FALSE, wasActive |-> FALSE,
                 initialized |-> FALSE, active |-> FALSE,
                 sampleRate |-> DefaultSampleRate,
                 bufferSize |-> DefaultBufferSize]

admConfig == <<m_currentSampleRate, m_currentBufferSize>>

\* bufferSize & (bufferSize - 1) is 0, for a positive bufferSize
IsPowerOfTwo(n) ==
    LET RECURSIVE pow2(_)
        pow2(k) == IF k = 1 THEN TRUE
                   ELSE IF k % 2 = 1 THEN FALSE ELSE pow2(k \div 2)
    IN  pow2(n)

\* the parameter validation of setAudioConfiguration
ValidSampleRate(sampleRate) ==
    ~(sampleRate < MinSampleRate \/ sampleRate > MaxSampleRate)

\* a buffer size check that leaves out the power-of-two test
ValidBufferSizeInRange(bufferSize) ==
    ~(bufferSize < MinBufferSize \/ bufferSize > MaxBufferSize)

ValidBufferSize(bufferSize) ==
    ~(bufferSize < MinBufferSize \/ bufferSize > MaxBufferSize
      \/ ~IsPowerOfTwo(bufferSize))

\* AudioDeviceManager::initialize; initialiseWithDefaultDevices can fail
admInitialize(ok) ==
    /\ admPc = "idle"
    /\ m_mutex = "none"
    /\ UNCHANGED <<m_mutex, m_isAudioActive, admConfig, audioCallbackAdded,
                   admPc, admCall>>
    /\ IF adm_isInitialized
       THEN /\ UNCHANGED adm_isInitialized
            /\ admRet' = AdmReturn("initialize", "true", <<>>, <<>>)
       ELSE IF ok
            THEN /\ adm_isInitialized' = TRUE
                 /\ admRet' = AdmReturn("initialize", "true",
                                        <<"ApplicationStarted">>, <<>>)
            ELSE /\ UNCHANGED adm_isInitialized
                 /\ admRet' = AdmReturn("initialize", "false",
                                        <<"AudioDeviceError">>, <<>>)
    /\ UNCHANGED notAdmVars

\* AudioDeviceManager::shutdown.  While audio is active it calls stopAudio,
\* whose first statement locks m_mutex, which shutdown holds.
admShutdown ==
    /\ admPc = "idle"
    /\ m_mutex = "none"
    /\ UNCHANGED <<m_isAudioActive, admConfig, audioCallbackAdded>>
    /\ IF ~adm_isInitialized
       THEN /\ UNCHANGED <<m_mutex, adm_isInitialized, admPc, admCall>>
            /\ admRet' = AdmReturn("shutdown", "void", <<>>, <<>>)
       ELSE IF m_isAudioActive
            THEN /\ m_mutex' = "app"
                 /\ admPc' = "relock"
                 /\ admCall' = [name |-> "shutdown", args |-> <<>>]
                 /\ UNCHANGED <<adm_isInitialized, admRet>>
            ELSE /\ adm_isInitialized' = FALSE
                 /\ UNCHANGED <<m_mutex, admPc, admCall>>
                 /\ admRet' = AdmReturn("shutdown", "void",
                                        <<"ApplicationShutdown">>, <<>>)
    /\ UNCHANGED notAdmVars

\* std::mutex::lock by the thread that owns m_mutex is undefined: the thread
\* blocks for ever, or lock() throws std::system_error and the call of the
\* application is left by the exception
admLockOwnedMutex(outcome) ==
    /\ admPc = "relock"
    /\ UNCHANGED <<adm_isInitialized, m_isAudioActive, admConfig,
                   audioCallbackAdded>>
    /\ \/ /\ outcome = "blocks"
          /\ admPc' = "deadlocked"
          /\ UNCHANGED <<m_mutex, admCall, admRet>>
       \/ /\ outcome = "throws"
          /\ admPc' = "idle"
          /\ m_mutex' = "none"
          /\ admCall' = NoAdmCall
          /\ admRet' = AdmReturn(admCall.name, "exception", <<>>, admCall.args)
    /\ UNCHANGED notAdmVars

\* the events startAudio publishes when every start publishes
EventsOfStartAlways(initialized, active) ==
    IF initialized THEN <<"AudioProcessingStarted">> ELSE <<>>

\* the events startAudio publishes
EventsOfStart(initialized, active) ==
    IF initialized /\ ~active THEN <<"AudioProcessingStarted">> ELSE <<>>

\* AudioDeviceManager::startAudio
startAudio ==
    /\ admPc = "idle"
    /\ m_mutex = "none"
    /\ UNCHANGED <<m_mutex, adm_isInitialized, admConfig, admPc, admCall>>
    /\ IF ~adm_isInitialized
       THEN UNCHANGED <<m_isAudioActive, audioCallbackAdded>>
       ELSE IF m_isAudioActive
            THEN UNCHANGED <<m_isAudioActive, audioCallbackAdded>>
            ELSE /\ audioCallbackAdded' = TRUE
                 /\ m_isAudioActive' = TRUE
    /\ admRet' = AdmReturn("startAudio",
                           IF adm_isInitialized THEN "true" ELSE "false",
                           EventsOfStart(adm_isInitialized, m_isAudioActive),
                           <<>>)
    /\ UNCHANGED notAdmVars

\* AudioDeviceManager::stopAudio
stopAudio ==
    /\ admPc = "idle"
    /\ m_mutex = "none"
    /\ UNCHANGED <<m_mutex, adm_isInitialized, admConfig, admPc, admCall>>
    /\ IF ~m_isAudioActive
       THEN /\ UNCHANGED <<m_isAudioActive, audioCallbackAdded>>
            /\ admRet' = AdmReturn("stopAudio", "void", <<>>, <<>>)
       ELSE /\ audioCallbackAdded' = FALSE
            /\ m_isAudioActive' = FALSE
            /\ admRet' = AdmReturn("stopAudio", "void",
                                   <<"AudioProcessingStopped">>, <<>>)
    /\ UNCHANGED notAdmVars

\* AudioDeviceManager::setAudioConfiguration.  While audio is active it calls
\* stopAudio, which locks m_mutex again; setAudioDeviceSetup can fail.
setAudioConfiguration(sampleRate, bufferSize, ok) ==
    /\ admPc = "idle"
    /\ m_mutex = "none"
    /\ UNCHANGED <<adm_isInitialized, m_isAudioActive, audioCallbackAdded>>
    /\ IF ~adm_isInitialized
       THEN /\ UNCHANGED <<m_mutex, admConfig, admPc, admCall>>
            /\ admRet' = AdmReturn("setAudioConfiguration", "false", <<>>,
                                   <<sampleRate, bufferSize>>)
       ELSE IF ~ValidSampleRate(sampleRate) \/ ~ValidBufferSize(bufferSize)
            THEN /\ UNCHANGED <<m_mutex, admConfig, admPc, admCall>>
                 /\ admRet' = AdmReturn("setAudioConfiguration", "false",
                                        <<"AudioDeviceError">>,
                                        <<sampleRate, bufferSize>>)
       ELSE IF m_isAudioActive
            THEN /\ m_mutex' = "app"
                 /\ admPc' = "relock"
                 /\ admCall' = [name |-> "setAudioConfiguration",
                                args |-> <<sampleRate, bufferSize>>]
                 /\ UNCHANGED <<admConfig, admRet>>
       ELSE IF ok
            THEN /\ m_currentSampleRate' = sampleRate
                 /\ m_currentBufferSize' = bufferSize
                 /\ UNCHANGED <<m_mutex, admPc, admCall>>
                 /\ admRet' = AdmReturn("setAudioConfiguration", "true", <<>>,
                                        <<sampleRate, bufferSize>>)
            ELSE /\ UNCHANGED <<m_mutex, admConfig, admPc, admCall>>
                 /\ admRet' = AdmReturn("setAudioConfiguration", "false",
                                        <<"AudioDeviceError">>,
                                        <<sampleRate, bufferSize>>)
    /\ UNCHANGED notAdmVars

\* AudioDeviceManager::audioDeviceError, called by the host API on the device
\* thread while the manager is one of its audio callbacks
audioDeviceError ==
    /\ audioCallbackAdded
    /\ UNCHANGED <<m_mutex, adm_isInitialized, m_isAudioActive, admConfig,
                   audioCallbackAdded, admPc, admCall>>
    /\ admRet' = AdmReturn("audioDeviceError", "void", <<"AudioDeviceError">>,
                           <<>>)
    /\ UNCHANGED notAdmVars

\* AudioDeviceManager::audioDeviceStopped: resets the input level only
audioDeviceStopped ==
    /\ audioCallbackAdded
    /\ UNCHANGED <<m_mutex, adm_isInitialized, m_isAudioActive, admConfig,
                   audioCallbackAdded, admPc, admCall>>
    /\ admRet' = AdmReturn("audioDeviceStopped", "void", <<>>, <<>>)
    /\ UNCHANGED notAdmVars

\* the configuration calls, common to both specifications
NextConfig ==
    \/ \E type \in FilterTypes, enabled \in BOOLEAN : setEventFilter(type, enabled)
    \/ \E maxSize \in 0..MaxQueueSize : setMaxQueueSize(maxSize)

\* start, stop and the dispatch thread
NextLifecycle ==
    \/ start
    \/ stopSignal
    \/ stopJoin
    \/ stopClear
    \/ processEventsExit
    \/ processEventsPop

(***************************************************************************)
(* SpecBus: one publisher thread, the control thread, the dispatch thread  *)
(* and up to MaxHandles listeners that return, throw or block, under the   *)
(* default configuration.                                                  *)
(***************************************************************************)
NextBus ==
    \/ NextLifecycle
    \/ \E p \in BusPublishers, type \in EventTypes :
          nextEventId < MaxEvents /\ publishCheck(p, type)
    \/ \E p \in BusPublishers : publishEnqueue(p)
    \/ \E p \in BusPublishers, type \in EventTypes :
          nextEventId < MaxEvents /\ publishImmediate(p, type)
    \/ \E p \in BusPublishers : publishImmediateCount(p)
    \/ \E t \in Deliverers : deliverEventCollect(t)
    \/ \E t \in Deliverers, o \in Outcomes :
          /\ o = "not_scheduled" => Cardinality(detached) < MaxDetached
          /\ deliverToListener(t, o)
    \/ \E d \in detached : detachedInvoke(d)
    \/ \E t \in Deliverers : updateStats(t)
    \/ \E type \in EventTypes : m_nextHandle <= MaxHandles /\ subscribe(type)
    \/ m_nextHandle <= MaxHandles /\ subscribeAll
    \/ \E h \in 1..MaxHandles : unsubscribe(h)
    \/ unsubscribeAll

(***************************************************************************)
(* AudioBuffer::copyFrom                                                   *)
(*                                                                         *)
(* Sample i of channel c of a buffer is buffer[c + 1][i + 1].              *)
(***************************************************************************)
\* AudioBuffer::AudioBuffer(numChannels, numSamples): allocated and cleared
AudioBuffer(numChannels, numSamples) ==
    [c \in 1..numChannels |-> Zeros(numSamples)]

\* a source buffer with a different value in every sample
RampBuffer(numChannels, numSamples) ==
    [c \in 1..numChannels |-> [i \in 1..numSamples |-> MaxCopySamples * c + i]]

(***************************************************************************)
(* AudioBuffer: getSample, setSample, getMagnitude, getRMSLevel,           *)
(* findMinimum and findMaximum.  Every accessor gives the value it returns *)
(* and the floats it reads or writes, as offsets from m_allocatedMemory:   *)
(* sample i of channel c is at c * m_numSamples + i.  m_channels is null   *)
(* for a buffer constructed without channels or without samples; outside   *)
(* is what a read outside the buffer finds.                                *)
(***************************************************************************)
Touched(value, cells, nullDeref) == [value |-> value, cells |-> cells, nullDeref |-> nullDeref]

hasChannels(buffer) == getNumChannels(buffer) > 0 /\ getNumSamples(buffer) > 0

\* m_channels[channel] + sample
Address(buffer, channel, sample) == channel * getNumSamples(buffer) + sample

\* the floats of m_allocatedMemory
Allocated(buffer) ==
    IF hasChannels(buffer)
    THEN 0..(getNumChannels(buffer) * getNumSamples(buffer) - 1)
    ELSE {}

\* the float at an address
Float(buffer, address, outside) ==
    IF address \in Allocated(buffer)
    THEN buffer[(address \div getNumSamples(buffer)) + 1]
               [(address % getNumSamples(buffer)) + 1]
    ELSE outside

ISqrt(n) == CHOOSE r \in 0..n : r * r <= n /\ (r + 1) * (r + 1) > n

Abs(x) == IF x < 0 THEN -x ELSE x

RECURSIVE SumSquares(_, _, _)
SumSquares(buffer, addresses, outside) ==
    IF addresses = {}
    THEN 0
    ELSE LET a == CHOOSE x \in addresses : TRUE
         IN  Float(buffer, a, outside) * Float(buffer, a, outside)
             + SumSquares(buffer, addresses \ {a}, outside)

\* the addresses of numSamples samples of a channel from startSample
RangeOf(buffer, channel, startSample, numSamples) ==
    {Address(buffer, channel, startSample + i) : i \in 0..(numSamples - 1)}

\* channel >= 0 && channel < m_numChannels && startSample >= 0 &&
\* startSample + numSamples <= m_numSamples && m_channels
rangeChecked(buffer, channel, startSample, numSamples) ==
    /\ channel >= 0 /\ channel < getNumChannels(buffer)
    /\ startSample >= 0 /\ startSample + numSamples <= getNumSamples(buffer)
    /\ hasChannels(buffer)

\* float getSample(int channel, int sample) const
getSample(buffer, channel, sample, outside) ==
    IF /\ channel >= 0 /\ channel < getNumChannels(buffer)
       /\ sample >= 0 /\ sample < getNumSamples(buffer)
       /\ hasChannels(buffer)
    THEN Touched(buffer[channel + 1][sample + 1],
                 {Address(buffer, channel, sample)}, FALSE)
    ELSE Touched(0, {}, FALSE)

\* void setSample(int channel, int sample, float value): the buffer afterwards
setSample(buffer, channel, sample, value) ==
    IF /\ channel >= 0 /\ channel < getNumChannels(buffer)
       /\ sample >= 0 /\ sample < getNumSamples(buffer)
       /\ hasChannels(buffer)
    THEN [buffer EXCEPT ![channel + 1][sample + 1] = value]
    ELSE buffer

\* float getMagnitude(int channel, int startSample, int numSamples) const
getMagnitude(buffer, channel, startSample, numSamples, outside) ==
    IF rangeChecked(buffer, channel, startSample, numSamples) /\ numSamples > 0
    THEN LET cells == RangeOf(buffer, channel, startSample, numSamples)
         IN  Touched(CHOOSE m \in {Abs(Float(buffer, a, outside)) : a \in cells} :
                        \A a \in cells : Abs(Float(buffer, a, outside)) <= m,
                     cells, FALSE)
    ELSE Touched(0, {}, FALSE)

\* float getRMSLevel(int channel, int startSample, int numSamples) const
getRMSLevelOfChannel(buffer, channel, startSample, numSamples, outside) ==
    IF rangeChecked(buffer, channel, startSample, numSamples) /\ numSamples > 0
    THEN LET cells == RangeOf(buffer, channel, startSample, numSamples)
         IN  Touched(ISqrt(SumSquares(buffer, cells, outside) \div numSamples),
                     cells, FALSE)
    ELSE Touched(0, {}, FALSE)

\* the sum of the squares of the samples of the first numChannels channels
RECURSIVE SumOfChannels(_, _, _, _, _)
SumOfChannels(buffer, numChannels, startSample, numSamples, outside) ==
    IF numChannels = 0
    THEN 0
    ELSE SumSquares(buffer, RangeOf(buffer, numChannels - 1, startSample, numSamples), outside)
         + SumOfChannels(buffer, numChannels - 1, startSample, numSamples, outside)

\* float getRMSLevel(int startSample, int numSamples) const: every channel,
\* no test of the range and none of m_channels
getRMSLevel(buffer, startSample, numSamples, outside) ==
    IF getNumChannels(buffer) <= 0
    THEN Touched(0, {}, FALSE)
    ELSE IF ~hasChannels(buffer)
    THEN Touched(0, {}, TRUE)
    ELSE LET cells == UNION {RangeOf(buffer, ch, startSample, numSamples) :
                               ch \in 0..(getNumChannels(buffer) - 1)}
             sumSquares == SumOfChannels(buffer, getNumChannels(buffer),
                                         startSample, numSamples, outside)
             totalSamples == getNumChannels(buffer) * numSamples
         IN  IF totalSamples > 0
             THEN Touched(ISqrt(sumSquares \div totalSamples), cells, FALSE)
             ELSE Touched(0, {}, FALSE)

\* float findMinimum(int channel, int startSample, int numSamples) const
findMinimum(buffer, channel, startSample, numSamples, outside) ==
    IF rangeChecked(buffer, channel, startSample, numSamples) /\ numSamples > 0
    THEN LET cells == RangeOf(buffer, channel, startSample, numSamples)
         IN  Touched(CHOOSE m \in {Float(buffer, a, outside) : a \in cells} :
                        \A a \in cells : m <= Float(buffer, a, outside),
                     cells, FALSE)
    ELSE Touched(0, {}, FALSE)

\* float findMaximum(int channel, int startSample, int numSamples) const
findMaximum(buffer, channel, startSample, numSamples, outside) ==
    IF rangeChecked(buffer, channel, startSample, numSamples) /\ numSamples > 0
    THEN LET cells == RangeOf(buffer, channel, startSample, numSamples)
         IN  Touched(CHOOSE m \in {Float(buffer, a, outside) : a \in cells} :
                        \A a \in cells : Float(buffer, a, outside) <= m,
                     cells, FALSE)
    ELSE Touched(0, {}, FALSE)

Accessors ==
    {"getSample", "setSample", "getMagnitude", "getRMSLevelOfChannel",
     "getRMSLevel", "findMinimum", "findMaximum"}

NoAccess == [called |-> FALSE]

InitAccess == abAccess = NoAccess

\* a call of one accessor of buffer; setSample writes the value outside
access(buffer, name, channel, startSample, numSamples, outside) ==
    LET r == CASE name = "getSample" -> getSample(buffer, channel, startSample, outside)
               [] name = "setSample" -> Touched(0, {}, FALSE)
               [] name = "getMagnitude" ->
                    getMagnitude(buffer, channel, startSample, numSamples, outside)
               [] name = "getRMSLevelOfChannel" ->
                    getRMSLevelOfChannel(buffer, channel, startSample, numSamples, outside)
               [] name = "getRMSLevel" ->
                    getRMSLevel(buffer, startSample, numSamples, outside)
               [] name = "findMinimum" ->
                    findMinimum(buffer, channel, startSample, numSamples, outside)
               [] name = "findMaximum" ->
                    findMaximum(buffer, channel, startSample, numSamples, outside)
    IN  /\ abAccess' = [called |-> TRUE, buffer |-> buffer, name |-> name,
                        channel |-> channel, startSample |-> startSample,
                        numSamples |-> IF name \in {"getSample", "setSample"}
                                       THEN 1 ELSE numSamples,
                        value |-> r.value, cells |-> r.cells,
                        nullDeref |-> r.nullDeref,
                        after |-> IF name = "setSample"
                                  THEN setSample(buffer, channel, startSample, outside)
                                  ELSE buffer]
        /\ UNCHANGED notAccVars

NoCopyCall ==
    [count |-> 0, before |-> <<>>, source |-> <<>>, destChannel |-> 0,
     destStartSample |-> 0, sourceChannel |-> 0, sourceStartSample |-> 0,
     numSamples |-> 0]

InitCopy ==
    /\ abDest = AudioBuffer(1, MaxCopySamples)
    /\ abCall = NoCopyCall

\* AudioBuffer::copySIMD(dest, src, numSamples), dest and src pointing at
\* sample destStartSample of channel destChannel and at sample
\* sourceStartSample of the source channel
copySIMD(dest, destChannel, destStartSample, src, sourceStartSample, numSamples) ==
    IF numSamples <= 0
    THEN dest
    ELSE [dest EXCEPT ![destChannel + 1] =
             [i \in DOMAIN @ |->
                 IF i - 1 \in destStartSample..(destStartSample + numSamples - 1)
                 THEN src[sourceStartSample + (i - 1 - destStartSample) + 1]
                 ELSE @[i]]]

\* a copy that is made whenever both channels exist and clamps the range
\* to the samples both buffers have
copyFromClamped(dest, destChannel, destStartSample, source, sourceChannel, sourceStartSample, numSamples) ==
    IF /\ destChannel >= 0 /\ destChannel < getNumChannels(dest)
       /\ sourceChannel >= 0 /\ sourceChannel < getNumChannels(source)
    THEN [dest EXCEPT ![destChannel + 1] =
             [i \in DOMAIN @ |->
                 IF /\ i - 1 - destStartSample \in 0..(numSamples - 1)
                    /\ sourceStartSample + (i - 1 - destStartSample)
                          \in 0..(getNumSamples(source) - 1)
                 THEN source[sourceChannel + 1]
                            [sourceStartSample + (i - 1 - destStartSample) + 1]
                 ELSE @[i]]]
    ELSE dest

\* AudioBuffer::copyFrom(destChannel, destStartSample, source, sourceChannel,
\* sourceStartSample, numSamples) on the buffer dest
copyFrom(dest, destChannel, destStartSample, source, sourceChannel, sourceStartSample, numSamples) ==
    IF /\ destChannel >= 0 /\ destChannel < getNumChannels(dest)
       /\ sourceChannel >= 0 /\ sourceChannel < getNumChannels(source)
       /\ destStartSample >= 0
       /\ destStartSample + numSamples <= getNumSamples(dest)
       /\ sourceStartSample >= 0
       /\ sourceStartSample + numSamples <= getNumSamples(source)
    THEN copySIMD(dest, destChannel, destStartSample, source[sourceChannel + 1],
                  sourceStartSample, numSamples)
    ELSE dest

\* a call dest.copyFrom(...) of the application
abCopyFrom(source, destChannel, destStartSample, sourceChannel, sourceStartSample, numSamples) ==
    /\ abCall.count < MaxCopyCalls
    /\ abDest' = copyFrom(abDest, destChannel, destStartSample, source,
                          sourceChannel, sourceStartSample, numSamples)
    /\ abCall' = [count |-> abCall.count + 1, before |-> abDest,
                  source |-> source, destChannel |-> destChannel,
                  destStartSample |-> destStartSample,
                  sourceChannel |-> sourceChannel,
                  sourceStartSample |-> sourceStartSample,
                  numSamples |-> numSamples]
    /\ UNCHANGED notAbVars

\* a dispatcher next to an idle ring buffer and an idle router
Init ==
    /\ InitBus
    /\ InitRing(MaxCapacity)
    /\ InitRouter(TRUE, {})
    /\ InitAdm
    /\ InitNr
    /\ InitNrThreads
    /\ InitCopy
    /\ InitCfg
    /\ InitShape
    /\ InitAccess

Next == NextBus

Spec == Init /\ [][Next]_vars

SpecBus == Spec

(***************************************************************************)
(* SpecQueue: two publisher threads, the control thread and the dispatch   *)
(* thread of a dispatcher nobody has subscribed to.                        *)
(***************************************************************************)
NextQueue ==
    \/ NextLifecycle
    \/ NextConfig
    \/ \E p \in Publishers, type \in EventTypes :
          nextEventId < MaxQueueEvents /\ publishCheck(p, type)
    \/ \E p \in Publishers : publishEnqueue(p)
    \/ \E p \in Publishers, type \in EventTypes :
          nextEventId < MaxQueueEvents /\ publishImmediate(p, type)
    \/ \E p \in Publishers : publishImmediateCount(p)
    \/ \E t \in Deliverers : deliverEventCollect(t)
    \/ \E t \in Deliverers : updateStats(t)

SpecQueue == Init /\ [][NextQueue]_vars

(***************************************************************************)
(* SpecQuiet: the dispatcher of SpecQueue with one publisher thread and    *)
(* the publish() calls made before the first start() recorded.             *)
(***************************************************************************)
NextQuiet ==
    \/ NextLifecycle
    \/ \E maxSize \in 0..MaxQueueSize : setMaxQueueSize(maxSize)
    \/ \E p \in BusPublishers, type \in EventTypes :
          Len(quietCalls) < MaxQuietCalls /\ publishRejected(p, type)
    \/ \E p \in BusPublishers, type \in EventTypes :
          nextEventId < MaxEvents /\ publishCheck(p, type)
    \/ \E p \in BusPublishers : publishEnqueue(p)
    \/ \E t \in Deliverers : deliverEventCollect(t)
    \/ \E t \in Deliverers : updateStats(t)

SpecQuiet == Init /\ [][NextQuiet]_vars

(***************************************************************************)
(* SpecFilter: one publisher thread, the control thread that starts, stops *)
(* and sets the filters, the dispatch thread and listeners that return.    *)
(***************************************************************************)
NextFilter ==
    \/ NextLifecycle
    \/ \E type \in FilterTypes, enabled \in BOOLEAN : setEventFilter(type, enabled)
    \/ \E p \in BusPublishers, type \in EventTypes :
          filteredCalls < MaxFilteredCalls /\ publishFiltered(p, type)
    \/ \E p \in BusPublishers, type \in EventTypes :
          nextEventId < MaxEvents /\ publishCheck(p, type)
    \/ \E p \in BusPublishers : publishEnqueue(p)
    \/ \E p \in BusPublishers, type \in EventTypes :
          nextEventId < MaxEvents /\ publishImmediate(p, type)
    \/ \E p \in BusPublishers : publishImmediateCount(p)
    \/ \E t \in Deliverers : deliverEventCollect(t)
    \/ \E t \in Deliverers : deliverToListener(t, "returns")
    \/ \E t \in Deliverers : updateStats(t)
    \/ \E type \in EventTypes : m_nextHandle <= MaxHandles /\ subscribe(type)

SpecFilter == Init /\ [][NextFilter]_vars

(***************************************************************************)
(* SpecCleanup: a running dispatcher with listeners, one publisher thread, *)
(* the clock, and the cleanup of inactive listeners by the dispatch thread.*)
(***************************************************************************)
NextCleanup ==
    \/ start
    \/ \E p \in BusPublishers, type \in EventTypes :
          nextEventId < MaxEvents /\ publishCheck(p, type)
    \/ \E p \in BusPublishers : publishEnqueue(p)
    \/ processEventsPop
    \/ \E t \in Deliverers : deliverEventCollect(t)
    \/ \E t \in Deliverers : deliverToListener(t, "returns")
    \/ \E t \in Deliverers : updateStats(t)
    \/ \E type \in EventTypes : m_nextHandle <= MaxHandles /\ subscribe(type)
    \/ m_nextHandle <= MaxHandles /\ subscribeAll
    \/ now < MaxTime /\ tick
    \/ cleanupInactiveListeners

SpecCleanup == Init /\ [][NextCleanup]_vars

(***************************************************************************)
(* SpecRing: a ring buffer of any capacity up to MaxCapacity, its producer *)
(* thread and its consumer thread.                                         *)
(***************************************************************************)
InitRingAny ==
    /\ InitBus
    /\ \E numSamples \in 1..MaxCapacity : InitRing(numSamples)
    /\ InitRouter(TRUE, {})
    /\ InitAdm
    /\ InitNr
    /\ InitNrThreads
    /\ InitCopy
    /\ InitCfg
    /\ InitShape
    /\ InitAccess

NextRing ==
    \/ \E n \in FrameSamples, channelsMatch \in BOOLEAN : write(n, channelsMatch)
    \/ \E n \in FrameSamples, channelsMatch \in BOOLEAN : read(n, channelsMatch)
    \/ \E t \in RingThreads : availableLoadWritePos(t)
    \/ \E t \in RingThreads : availableLoadReadPos(t)
    \/ \E t \in RingThreads : loadPosition(t)
    \/ \E t \in RingThreads : storePosition(t)
    \/ \E t \in RingThreads : clearReadPosition(t)
    \/ \E t \in RingThreads : clearWritePosition(t)

SpecRing == InitRingAny /\ [][NextRing]_vars

(***************************************************************************)
(* SpecRingStream: a ring buffer, a producer thread that writes the        *)
(* samples of a stream block after block and a consumer thread that reads  *)
(* blocks; nobody calls clear.                                             *)
(***************************************************************************)
InitRingStream ==
    /\ InitBus
    /\ \E numSamples \in 1..MaxStreamCapacity :
           /\ m_bufferSize = numSamples
           /\ m_readPosition = 0
           /\ m_writePosition = 0
           /\ ringPc = [t \in RingThreads |-> "idle"]
           /\ ringFrame = [t \in RingThreads |-> 0]
           /\ ringLocal = [t \in RingThreads |-> [writePos |-> 0, pos |-> 0]]
           /\ ringResult = [t \in RingThreads |-> "none"]
           /\ m_buffer = [i \in 0..(numSamples - 1) |-> 0]
           /\ ringStream = [NoStream EXCEPT !.on = TRUE]
    /\ InitRouter(TRUE, {})
    /\ InitAdm
    /\ InitNr
    /\ InitNrThreads
    /\ InitCopy
    /\ InitCfg
    /\ InitShape
    /\ InitAccess

NextRingStream ==
    \/ \E n \in -1..MaxStreamCapacity, channelsMatch \in BOOLEAN :
          write(n, channelsMatch)
    \/ \E n \in -1..MaxStreamCapacity, channelsMatch \in BOOLEAN :
          read(n, channelsMatch)
    \/ \E t \in RingThreads : availableLoadWritePos(t)
    \/ \E t \in RingThreads : availableLoadReadPos(t)
    \/ \E t \in RingThreads : loadPosition(t)
    \/ \E t \in RingThreads : storePosition(t)

SpecRingStream == InitRingStream /\ [][NextRingStream]_vars

(***************************************************************************)
(* SpecRouter: a router on a build with or without platform support, its   *)
(* application thread, the audio thread that routes buffers, the hot-plug  *)
(* thread, and virtual devices that come and go.                           *)
(***************************************************************************)
InitRouterAny ==
    /\ InitBus
    /\ InitRing(MaxCapacity)
    /\ \E platformImpl \in BOOLEAN, devices \in SUBSET DeviceIds :
           InitRouter(platformImpl, devices)
    /\ InitAdm
    /\ InitNr
    /\ InitNrThreads
    /\ InitCopy
    /\ InitCfg
    /\ InitShape
    /\ InitAccess

NextRouter ==
    \/ initialize
    \/ shutdown
    \/ \E outcome \in LockOutcomes : lockOwnedMutex(outcome)
    \/ \E deviceId \in DeviceIds : selectVirtualDevice(deviceId)
    \/ \E opened \in BOOLEAN : selectVirtualDeviceOpen(opened)
    \/ startRouting
    \/ stopRouting
    \/ setOutputConfiguration
    \/ hotPlugScan
    \/ hotPlugPoll
    \/ \E d \in DeviceIds : plug(d)
    \/ \E d \in DeviceIds : unplug(d)
    \/ routeSubmitted + routeRejected < MaxRouteCalls
       /\ routeAudioBuffer(m_outputSampleRate)
    \/ \E success \in BOOLEAN : routeWriteAudio(success)
    \/ \E opened \in BOOLEAN : attemptDeviceReconnection(opened)

SpecRouter == InitRouterAny /\ [][NextRouter]_vars

(***************************************************************************)
(* SpecRoute: a router whose application thread selects a device, sets the *)
(* error callback and starts and stops routing, and whose audio thread     *)
(* routes buffers of the output sample rate and of another one.            *)
(***************************************************************************)
NextRoute ==
    \/ initialize
    \/ \E outcome \in LockOutcomes : lockOwnedMutex(outcome)
    \/ \E deviceId \in DeviceIds : selectVirtualDevice(deviceId)
    \/ \E opened \in BOOLEAN : selectVirtualDeviceOpen(opened)
    \/ \E callback \in BOOLEAN : setErrorCallback(callback)
    \/ startRouting
    \/ stopRouting
    \/ \E sampleRate \in RouteSampleRates :
          /\ routeSubmitted + routeRejected < MaxRouteCalls
          /\ routeAudioBuffer(sampleRate)
    \/ \E success \in BOOLEAN : routeWriteAudio(success)
    \/ \E opened \in BOOLEAN : attemptDeviceReconnection(opened)

SpecRoute == InitRouterAny /\ [][NextRoute]_vars

(***************************************************************************)
(* SpecCopy: copyFrom calls on a cleared mono buffer, from mono source     *)
(* buffers of two lengths, with channels, start samples and sample counts  *)
(* inside and outside the buffers.                                         *)
(***************************************************************************)
NextCopy ==
    \E numSourceSamples \in (MaxCopySamples - 1)..MaxCopySamples,
       destChannel, sourceChannel \in 0..1,
       destStartSample, sourceStartSample \in (-1)..MaxCopySamples,
       numSamples \in (-1)..(MaxCopySamples + 1) :
        abCopyFrom(RampBuffer(1, numSourceSamples), destChannel,
                   destStartSample, sourceChannel, sourceStartSample,
                   numSamples)

SpecCopy == Init /\ [][NextCopy]_vars

(***************************************************************************)
(* SpecAccess: the accessors of an AudioBuffer on buffers without          *)
(* channels, without samples, and with one and two channels of samples,    *)
(* with channels and ranges inside and outside the buffer.                 *)
(***************************************************************************)
AccessBuffers ==
    {AudioBuffer(0, 0), AudioBuffer(1, 0), RampBuffer(1, 2), RampBuffer(2, 2)}

NextAccess ==
    \E buffer \in AccessBuffers, name \in Accessors, channel \in (-1)..2,
       startSample \in (-1)..2, numSamples \in (-1)..2, outside \in {0, 9} :
        access(buffer, name, channel, startSample, numSamples, outside)

SpecAccess == Init /\ [][NextAccess]_vars

(***************************************************************************)
(* SpecAdm: an AudioDeviceManager, the application thread that calls it    *)
(* and the device thread of the host API that calls it back.               *)
(***************************************************************************)
NextAdm ==
    \/ \E ok \in BOOLEAN : admInitialize(ok)
    \/ admShutdown
    \/ \E outcome \in LockOutcomes : admLockOwnedMutex(outcome)
    \/ startAudio
    \/ stopAudio
    \/ \E sampleRate \in SampleRates, bufferSize \in BufferSizes, ok \in BOOLEAN :
          setAudioConfiguration(sampleRate, bufferSize, ok)
    \/ audioDeviceError
    \/ audioDeviceStopped

SpecAdm == Init /\ [][NextAdm]_vars

(***************************************************************************)
(* SpecNr: a NoiseReductionProcessor and the one thread that calls it.     *)
(***************************************************************************)
NextNr ==
    \/ \E sampleRate \in NrSampleRates, created \in BOOLEAN :
          nrInitialize(sampleRate, created)
    \/ nrShutdown
    \/ \E enabled \in BOOLEAN : setEnabled(enabled)
    \/ \E frame \in Frames, outcome \in OverflowOutcomes :
          /\ nrStats.framesProcessed < MaxProcessCalls
          /\ process(frame, outcome)

SpecNr == Init /\ [][NextNr]_vars

(***************************************************************************)
(* SpecCfg: the setters of the NoiseReductionProcessor on two threads.     *)
(***************************************************************************)
NextCfg ==
    \/ \E t \in NrThreads, config \in Configs : setConfigAssign(t, config)
    \/ \E t \in NrThreads : setConfigStore(t)
    \/ \E t \in NrThreads, enabled \in BOOLEAN : setEnabledExchange(t, enabled)
    \/ \E t \in NrThreads : setEnabledConfig(t)
    \/ \E t \in NrThreads, level \in Levels : setLevel(t, level)

SpecCfg == Init /\ [][NextCfg]_vars

(***************************************************************************)
(* SpecShape: applyReductionLevel on every configuration, frame and voice  *)
(* probability of the sets above.                                          *)
(***************************************************************************)
NextShape ==
    \E config \in ShapeConfigs, frame \in ShapeFrames, voiceProb \in Tenths :
        shape(config, frame, voiceProb)

SpecShape == Init /\ [][NextShape]_vars

(***************************************************************************)
(* SpecNrThreads: a NoiseReductionProcessor at the native sample rate, the *)
(* threads that each call process() once with a mono frame, and setEnabled *)
(***************************************************************************)
NextNrThreads ==
    \/ nrInitialize(RNNOISE_SAMPLE_RATE, TRUE)
    \/ \E enabled \in BOOLEAN : setEnabled(enabled)
    \/ \E t \in NrThreads, n \in 1..MaxFrameSamples : nrtProcess(t, n)
    \/ \E t \in NrThreads : nrtInsert(t)
    \/ \E t \in NrThreads : nrtLoop(t)
    \/ \E t \in NrThreads : nrtProcessFrame(t)
    \/ \E t \in NrThreads : nrtErase(t)
    \/ \E t \in NrThreads : nrtDrain(t)

SpecNrThreads == Init /\ [][NextNrThreads]_vars

(***************************************************************************)
(* EventDispatcher: properties                                             *)
(***************************************************************************)
\* number of times listener h was called with event id
Invocations(log, h, id) ==
    Cardinality({i \in 1..Len(log) : log[i][1] = h /\ log[i][2].id = id})

\* no call of the dispatcher is in progress and it is stopped
Quiescent ==
    /\ ~crashed
    /\ ~m_running
    /\ pc["ctl"] = "idle"
    /\ pc[Dispatcher] = "none"
    /\ \A p \in Publishers : pc[p] = "idle"

\* C1: the enqueue step of publish() on a queue that holds at least the
\* maximum number of events removes exactly the oldest queued event, appends
\* the new event at the tail and adds one to eventsDropped; on a queue below
\* the maximum it appends the event and drops nothing.
C1_PublishDropsOldest ==
    [][\A p \in Publishers :
          (pc[p] = "enqueue" /\ pc'[p] = "idle") =>
              IF m_eventQueue # <<>> /\ Len(m_eventQueue) >= m_maxQueueSize
              THEN /\ m_eventQueue' = Append(Tail(m_eventQueue), cur[p])
                   /\ m_stats'.eventsDropped = m_stats.eventsDropped + 1
              ELSE Len(m_eventQueue) < m_maxQueueSize =>
                   /\ m_eventQueue' = Append(m_eventQueue, cur[p])
                   /\ m_stats'.eventsDropped = m_stats.eventsDropped]_vars

\* C1 witness: a full queue of two events took a third one: the first event
\* is gone, the second and third are queued in order, one event was dropped.
C1_Witness ==
    /\ m_running
    /\ m_maxQueueSize = 2
    /\ Len(m_eventQueue) = 2
    /\ m_eventQueue[1].id = 2
    /\ m_eventQueue[2].id = 3
    /\ m_stats.eventsDropped = 1

\* C2: whenever the dispatcher is stopped and no call is in progress,
\* eventsPublished = eventsDelivered + eventsDropped + the events stop()
\* discarded.
C2_Conservation ==
    Quiescent =>
        m_stats.eventsPublished =
            m_stats.eventsDelivered + m_stats.eventsDropped + discarded

\* C3: when the dispatch of an event ends, every listener that was registered
\* before the event was published and still was when it was dispatched has
\* been called with it exactly once (a call
\* still owed by a detached delivery thread counts as made).
C3_ExactlyOnce ==
    [][\A t \in Deliverers :
          (pc[t] = "deliver" /\ pc'[t] # "deliver") =>
              \A h \in due[t] :
                  Invocations(calls', h, cur[t].id)
                    + (IF <<h, cur[t]>> \in detached' THEN 1 ELSE 0) = 1]_vars

\* C4: a listener is called for the queued events of one publisher thread in
\* the order in which that thread published them.
C4_PublishOrder ==
    \A i, j \in 1..Len(calls) :
        (/\ i < j
         /\ calls[i][1] = calls[j][1]
         /\ calls[i][2].pub = calls[j][2].pub
         /\ ~calls[i][2].imm
         /\ ~calls[j][2].imm) => calls[i][2].id < calls[j][2].id

\* C5: N publish() calls made before the first start() on a queue of capacity
\* C < N: once start() has been called and the dispatch thread has drained
\* the queue, C events were delivered and N - C were dropped.
C5_BacklogDelivered ==
    (/\ everStarted
     /\ m_running
     /\ ~m_shouldStop
     /\ ~crashed
     /\ pc[Dispatcher] = "wait"
     /\ m_eventQueue = <<>>
     /\ nextEventId = 0
     /\ m_maxQueueSize >= 1
     /\ Len(quietCalls) > m_maxQueueSize
     /\ \A i \in 1..Len(quietCalls) : quietCalls[i] = m_maxQueueSize)
    => /\ m_stats.eventsDelivered = m_maxQueueSize
       /\ m_stats.eventsDropped = Len(quietCalls) - m_maxQueueSize

(***************************************************************************)
(* AudioRingBuffer: properties                                             *)
(***************************************************************************)
\* no call of the ring buffer is in progress
RingIdle == \A t \in RingThreads : ringPc[t] = "idle"

\* C6: after any sequence of write, read and clear calls, successful or not,
\* of one producer and one consumer on a ring buffer of capacity C, both
\* indices are in 0..C-1 (they only advance modulo C), getAvailableToRead()
\* and getAvailableToWrite() are not negative and their sum is C - 1.
C6_RingInvariant ==
    RingIdle =>
        /\ m_readPosition \in 0..(m_bufferSize - 1)
        /\ m_writePosition \in 0..(m_bufferSize - 1)
        /\ getAvailableToRead >= 0
        /\ getAvailableToWrite >= 0
        /\ getAvailableToRead + getAvailableToWrite = m_bufferSize - 1

(***************************************************************************)
(* VirtualDeviceRouter: properties                                         *)
(***************************************************************************)
\* routeAudioBuffer calls that have counted their buffer and not yet returned
RouteCounted == IF rpc["audio"] = "reconnect" THEN 1 ELSE 0

\* C7: at every point m_buffersRouted + m_droppedBuffers is the number of
\* routeAudioBuffer calls that were submitted while the router was routing
\* and have returned (plus the call that has counted its buffer and is
\* about to return); a call made while the router is not routing returns
\* false and changes neither counter.
C7_RouteAccounting ==
    /\ [](m_buffersRouted + m_droppedBuffers = routeCompleted + RouteCounted)
    /\ [][(/\ rpc["audio"] = "idle"
           /\ ~m_isRouting
           /\ <<routeSubmitted, routeRejected>>' # <<routeSubmitted, routeRejected>>)
          => /\ rpc'["audio"] = "idle"
             /\ lastRouteResult' = "false"
             /\ routeSubmitted' = routeSubmitted
             /\ m_buffersRouted' = m_buffersRouted
             /\ m_droppedBuffers' = m_droppedBuffers]_vars

\* C7 witness: a routed buffer, a dropped buffer and a rejected call, all
\* calls returned.
C7_Witness ==
    /\ rpc["audio"] = "idle"
    /\ m_buffersRouted = 1
    /\ m_droppedBuffers = 1
    /\ routeCompleted = 2
    /\ routeRejected = 1
    /\ lastRouteResult = "false"
    /\ ~m_isRouting

\* C8: a shutdown() call on an initialized router never blocks for ever,
\* and when it has returned the router is uninitialized, is not routing and
\* the hot-plug thread is stopped and joined.
C8_ShutdownReturns ==
    /\ ~(rpc["app"] = "deadlocked" /\ rcall.name = "shutdown")
    /\ (rpc["app"] = "idle" /\ rret.call = "shutdown" /\ rret.wasInit) =>
           /\ rret.result = "void"
           /\ ~rret.initialized
           /\ ~rret.routing
           /\ ~rret.hotplug

\* C9: on a build with platform support no initialize() or shutdown() call
\* blocks for ever; initialize() returns true and leaves the router
\* initialized, with a device selected when one was present; shutdown()
\* returns and leaves the router uninitialized.
C9_InitializeShutdown ==
    m_platformImpl =>
        /\ ~(rpc["app"] = "deadlocked" /\ rcall.name \in {"initialize", "shutdown"})
        /\ (rpc["app"] = "idle" /\ rret.call = "initialize") =>
               /\ rret.result = "true"
               /\ rret.initialized
               /\ rret.scan # {} => rret.connected
        /\ (rpc["app"] = "idle" /\ rret.call = "shutdown") =>
               /\ rret.result = "void"
               /\ ~rret.initialized

\* C10: the hot-plug poll that finds the connected device missing from the
\* scan marks it disconnected, publishes the disconnection of the device
\* and, if the router was routing, leaves it no longer routing.
C10_PollDisconnect ==
    [][(/\ rpc["hotplug"] = "poll"
        /\ rpc'["hotplug"] = "sleep"
        /\ m_currentDevice.isConnected
        /\ m_currentDevice.id \notin scanned)
       => /\ ~m_currentDevice'.isConnected
          /\ lastEvent' = DeviceError(-6)
          /\ m_isRouting => ~m_isRouting']_vars

\* C11: a routeAudioBuffer call whose write fails while the router is
\* routing returns false, counts a dropped buffer and has published the
\* disconnection of the device (from which the router reconnects).
C11_OutagePublished ==
    [][(rpc["audio"] = "write" /\ m_droppedBuffers' = m_droppedBuffers + 1)
       => /\ lastEvent' = DeviceError(-5)
          /\ rpc'["audio"] = "idle" => lastRouteResult' = "false"]_vars

\* C12: a reconnection attempt is not made on every failed routeAudioBuffer
\* call: two failed calls in a row never both try to reopen the device.
C12_ReconnectRateLimited == reconnectAttempts <= 1

(***************************************************************************)
(* AudioDeviceManager: properties                                          *)
(***************************************************************************)
\* C13: shutdown() and setAudioConfiguration() with valid parameters, called
\* while audio is active, never block for ever; shutdown() returns with the
\* manager uninitialized and audio inactive, setAudioConfiguration() returns
\* true with the new format stored and audio active again.
C13_ActiveCallsReturn ==
    /\ ~(admPc = "deadlocked"
         /\ admCall.name \in {"shutdown", "setAudioConfiguration"})
    /\ (admPc = "idle" /\ admRet.call = "shutdown" /\ admRet.wasActive) =>
           /\ admRet.result = "void"
           /\ ~admRet.initialized
           /\ ~admRet.active
    /\ (/\ admPc = "idle"
        /\ admRet.call = "setAudioConfiguration"
        /\ admRet.wasActive
        /\ ValidSampleRate(admRet.args[1])
        /\ ValidBufferSize(admRet.args[2])) =>
           /\ admRet.result \in {"true", "false"}
           /\ admRet.result = "true" =>
                  /\ admRet.active
                  /\ admRet.sampleRate = admRet.args[1]
                  /\ admRet.bufferSize = admRet.args[2]

\* C14: startAudio() before initialize() returns false and publishes
\* nothing; a start that makes audio active publishes exactly one
\* AudioProcessingStarted and a stop that makes it inactive exactly one
\* AudioProcessingStopped; startAudio() while active and stopAudio() while
\* inactive change nothing and publish nothing; audio becomes active or
\* inactive in no other way.
C14_StartStopEvents ==
    /\ [](admRet.call = "startAudio" =>
            IF ~admRet.wasInit
            THEN /\ admRet.result = "false"
                 /\ admRet.events = <<>>
                 /\ admRet.active = admRet.wasActive
            ELSE /\ admRet.result = "true"
                 /\ admRet.active
                 /\ admRet.events = IF admRet.wasActive THEN <<>>
                                    ELSE <<"AudioProcessingStarted">>)
    /\ [](admRet.call = "stopAudio" =>
            /\ ~admRet.active
            /\ admRet.events = IF admRet.wasActive
                               THEN <<"AudioProcessingStopped">> ELSE <<>>)
    /\ [][m_isAudioActive' # m_isAudioActive =>
            admRet'.events = IF m_isAudioActive'
                             THEN <<"AudioProcessingStarted">>
                             ELSE <<"AudioProcessingStopped">>]_vars

\* C14 witness: audio was started and has just been stopped again.
C14_Witness ==
    /\ admRet.call = "stopAudio"
    /\ admRet.wasActive
    /\ admRet.events = <<"AudioProcessingStopped">>
    /\ ~m_isAudioActive
    /\ adm_isInitialized

\* C15: after the host API reported an error while audio was active, the
\* manager has published AudioDeviceError and audio is inactive until the
\* next call.
C15_ErrorStopsAudio ==
    (admRet.call = "audioDeviceError" /\ admRet.wasActive) =>
        /\ admRet.events = <<"AudioDeviceError">>
        /\ ~m_isAudioActive

(***************************************************************************)
(* NoiseReductionProcessor: properties                                     *)
(***************************************************************************)
\* C16: while the denoiser is disabled, process() on an initialized
\* processor with a non-empty frame returns true, leaves every sample of
\* the frame as it was, and changes neither the input and output queues
\* nor the statistics.
C16_DisabledBypass ==
    (/\ nrRet.call = "process"
     /\ nrRet.wasInit
     /\ ~nrRet.wasEnabled
     /\ ~isEmpty(nrRet.frame))
    => /\ nrRet.result = "true"
       /\ nrRet.out = nrRet.frame
       /\ ~nrRet.changed

\* a disabled, initialized processor with samples waiting in its queues
\* has returned from process() on a non-empty frame
C16_Witness ==
    /\ nrRet.call = "process"
    /\ nrRet.wasInit
    /\ ~nrRet.wasEnabled
    /\ ~isEmpty(nrRet.frame)
    /\ nrRet.result = "true"
    /\ m_inputQueue # <<>>
    /\ nrStats.framesProcessed > 0

\* C17: after every process() call on an enabled, initialized denoiser the
\* first k samples of every channel of the frame are the k oldest samples of
\* the output queue, k being the smaller of the queue's length and the
\* frame's sample count, those k samples have left the queue, and every
\* other sample of the frame is 0, for every k from 0 on.
C17_DrainZeroFill ==
    (/\ nrRet.call = "process"
     /\ nrRet.wasInit
     /\ nrRet.wasEnabled
     /\ nrRet.result = "true")
    => LET n == getNumSamples(nrRet.frame)
           k == Min(Len(nrRet.pending), n)
       IN  /\ \A ch \in 1..Len(nrRet.out) :
                 nrRet.out[ch] = SubSeq(nrRet.pending, 1, k) \o Zeros(n - k)
           /\ m_outputQueue = SubSeq(nrRet.pending, k + 1, Len(nrRet.pending))

\* C18: process() handles the channels of a frame with more than one
\* channel independently: two calls from the same state with frames that
\* have the same channel 0 leave the same samples in channel 0, whatever
\* the samples of channel 1 are.
C18_ChannelsIndependent ==
    (/\ nrRet.call = "process"
     /\ nrRet.result = "true"
     /\ getNumChannels(nrRet.frame) > 1)
    => nrRet.out[1] = nrRet.twinOut[1]

\* C19: process() on an uninitialized denoiser or with an empty frame
\* returns false and touches nothing: the frame, the queues, the
\* configuration and the statistics are as they were, so that later calls
\* start from the state they would have started from without it.
C19_RejectedUntouched ==
    (/\ nrRet.call = "process"
     /\ ~nrRet.wasInit \/ isEmpty(nrRet.frame))
    => /\ nrRet.result = "false"
       /\ nrRet.out = nrRet.frame
       /\ ~nrRet.changed
       /\ nrPc = "idle"

\* process() on a processor that was shut down with samples in its queues
\* has rejected a non-empty frame
C19_Witness ==
    /\ nrRet.call = "process"
    /\ ~nrRet.wasInit
    /\ ~isEmpty(nrRet.frame)
    /\ nrRet.result = "false"
    /\ m_enabled
    /\ m_inputQueue # <<>>

\* C20: initialize() on an initialized processor returns true and changes
\* nothing, shutdown() on an uninitialized processor changes nothing,
\* process() returns false whenever the processor is not initialized, and
\* once shutdown() has been followed by initialize(), process() on a
\* non-empty frame returns true again.
C20_Lifecycle ==
    /\ (nrRet.call = "initialize" /\ nrRet.wasInit)
       => (nrRet.result = "true" /\ ~nrRet.changed)
    /\ (nrRet.call = "shutdown" /\ ~nrRet.wasInit) => ~nrRet.changed
    /\ (nrRet.call = "process" /\ ~nrRet.wasInit) => nrRet.result = "false"
    /\ nrLife = "reinitialized"
       => /\ nrPc # "crashed"
          /\ (nrRet.call = "process" /\ nrRet.wasInit
              /\ ~isEmpty(nrRet.frame)) => nrRet.result = "true"

\* the samples process() was called with by the threads that have inserted
\* theirs
ThreadInputs ==
    UNION {{nrtFrame[t][i] : i \in 1..Len(nrtFrame[t])} :
           t \in {u \in NrThreads : nrtPc[u] \notin {"idle", "insert"}}}

NoDuplicates(seq) == \A i, j \in 1..Len(seq) : i # j => seq[i] # seq[j]

\* the samples that left the processor or wait in its output queue
ThreadOutputs ==
    LET RECURSIVE drained(_)
        drained(T) == IF T = {} THEN <<>>
                      ELSE LET t == CHOOSE u \in T : TRUE
                           IN  nrtDrained[t] \o drained(T \ {t})
    IN  drained(NrThreads) \o m_outputQueue

\* C21: with process() called by several threads on one initialized
\* processor while setEnabled is toggled, every call returns true, no erase
\* goes past the end of the input queue, every sample in the input queue is
\* a sample of one call's frame and is there once, and every sample that
\* was output or waits in the output queue is the processed sample of one
\* call's frame and is there once.
C21_ConcurrentProcess ==
    /\ \A t \in NrThreads : nrtPc[t] # "outOfRange"
    /\ \A t \in NrThreads : nrtPc[t] = "done" => nrtResult[t] = "true"
    /\ NoDuplicates(m_inputQueue)
    /\ \A i \in 1..Len(m_inputQueue) : m_inputQueue[i] \in ThreadInputs
    /\ NoDuplicates(ThreadOutputs)
    /\ \A i \in 1..Len(ThreadOutputs) :
          \E x \in ThreadInputs : ThreadOutputs[i] = processFrameSample(x)

(***************************************************************************)
(* EventDispatcher: delivery, start and stop                               *)
(***************************************************************************)
\* thread t calls the next listener of its list in this step
InvokesNext(t) ==
    /\ pc[t] = "deliver"
    /\ todo[t] # <<>>
    /\ calls' = Append(calls, <<Head(todo[t]), cur[t]>>)

\* C22: whatever a listener does when it is called with an event, throwing
\* an exception of any type included, the exception is caught: the thread
\* that delivers the event goes on with the listeners after it and the
\* process keeps running.
C22_ExceptionsCaught ==
    [][\A t \in Deliverers :
          InvokesNext(t) => /\ todo'[t] = Tail(todo[t])
                            /\ pc'[t] = "deliver"]_vars

\* C23: when the deliverer leaves a listener call behind, because the call
\* returned or because it took longer than the delivery timeout and was
\* abandoned, the process keeps running, so that the remaining listeners
\* and the events still queued are served.
C23_TimeoutContinues ==
    [][\A t \in Deliverers :
          (InvokesNext(t) /\ todo'[t] = Tail(todo[t])) => ~crashed']_vars

\* C24: start() and stop() are idempotent, and once stop() has returned the
\* dispatch thread is joined and the queue is empty and stays empty until
\* the next start(): nothing published before stop() returned is left to
\* be delivered after a later start().
C24_StoppedQueueEmpty ==
    (pc["ctl"] = "idle" /\ ~m_running)
    => /\ pc[Dispatcher] = "none"
       /\ m_eventQueue = <<>>

\* global listeners come before the listeners of a type, and listeners of
\* one kind in the order of their handles, which is registration order
Precedes(g, h) ==
    \/ m_listeners[g] = GlobalType /\ m_listeners[h] # GlobalType
    \/ (m_listeners[g] = GlobalType <=> m_listeners[h] = GlobalType) /\ g < h

\* C26: the listeners of one dispatched event are invoked one after the
\* other, all global listeners first in registration order and then the
\* listeners of the event's kind in registration order: of two calls with
\* the same event to listeners still registered, the earlier call is to the
\* listener that comes first in that order.
C26_SequentialOrder ==
    \A i, j \in 1..Len(calls) :
        (/\ i < j
         /\ calls[i][2].id = calls[j][2].id
         /\ calls[i][1] \in DOMAIN m_listeners
         /\ calls[j][1] \in DOMAIN m_listeners)
        => Precedes(calls[i][1], calls[j][1])

\* C25: a publish or publishImmediate call made while the kind of its event
\* is filtered returns at the filter check: it queues nothing, starts no
\* delivery and counts nothing, and no call that goes on to queue or
\* deliver its event has found the kind filtered; calls with other kinds,
\* and with the same kind once the filter is lifted, go on as usual.
C25_FilteredRejected ==
    /\ [][filteredCalls' # filteredCalls
            => UNCHANGED <<m_eventQueue, m_stats, cur, todo, detached, calls,
                           nextEventId>>]_vars
    /\ [][\A p \in Publishers :
            (pc[p] = "idle" /\ pc'[p] \in {"enqueue", "collect"})
            => ~m_eventFilters[cur'[p].type]]_vars

\* the filter has rejected a call, and a listener has been called with an
\* event of a kind that can be filtered, and with one of another kind
C25_Witness ==
    /\ filteredCalls > 0
    /\ \E i \in 1..Len(calls) : calls[i][2].type \in FilterTypes
    /\ \E i \in 1..Len(calls) : calls[i][2].type \notin FilterTypes

(***************************************************************************)
(* AudioDeviceManager: the format                                          *)
(***************************************************************************)
\* the formats the interface accepts
AcceptedFormat(sampleRate, bufferSize) ==
    /\ sampleRate \in MinSampleRate..MaxSampleRate
    /\ bufferSize \in MinBufferSize..MaxBufferSize
    /\ \E k \in 0..30 : 2^k = bufferSize     \* a power of two of an int

C28_FormatMismatch ==
    [][(/\ rpc["audio"] = "write"
        /\ rpc'["audio"] # "write"
        /\ routeRate # m_outputSampleRate)
       => /\ m_buffersRouted' = m_buffersRouted
          /\ m_droppedBuffers' = m_droppedBuffers + 1
          /\ rpc'["audio"] = "idle" => lastRouteResult' = "false"]_vars

\* C29: startRouting() on an initialized router that is not routing and
\* has no connected device returns false and leaves the router not
\* routing, and a set error callback is called with a message that is not
\* empty and an error code that is not 0 ("No virtual device connected",
\* -4); startRouting() on a router that is routing returns true and
\* changes no member of the router and publishes nothing.
C29_StartRouting ==
    [][startRouting =>
         /\ (m_isInitialized /\ ~m_isRouting /\ ~hasVirtualDevice) =>
                /\ rret'.result = "false"
                /\ ~m_isRouting'
                /\ m_errorCallback =>
                       /\ lastError' = [message |-> "No virtual device connected",
                                        code |-> -4]
                       /\ lastError'.message # ""
                       /\ lastError'.code # 0
         /\ m_isRouting =>
                /\ rret'.result = "true"
                /\ UNCHANGED <<platformVars, m_deviceMutex, m_isInitialized,
                               m_isRouting, m_currentDevice, m_hotPlugRunning,
                               routeVars, m_errorCallback, lastError,
                               lastEvent>>]_vars

\* C29 witness: with the error callback set, startRouting() on an
\* initialized router without a connected device has returned false and
\* the callback has been called.
C29_Witness ==
    /\ rret.call = "startRouting"
    /\ rret.result = "false"
    /\ rret.initialized
    /\ ~rret.connected
    /\ ~m_isRouting
    /\ m_errorCallback
    /\ lastError = [message |-> "No virtual device connected", code |-> -4]

(***************************************************************************)
(* AudioBuffer: copyFrom                                                   *)
(***************************************************************************)
\* C30: copyFrom clamps the range to the samples both buffers have: after a
\* call with existing channels, every sample of the destination channel
\* whose place in the range is inside the source holds the sample of the
\* source at that place, and every other sample of the buffer is what it
\* was before the call (a range that is inside both buffers is copied
\* whole, a range that is partly inside is copied where it is inside);
\* with a channel that does not exist the buffer is left as it was.
C30_CopyClamps ==
    abCall.count > 0 =>
        abDest = copyFromClamped(abCall.before, abCall.destChannel,
                                 abCall.destStartSample, abCall.source,
                                 abCall.sourceChannel, abCall.sourceStartSample,
                                 abCall.numSamples)

(***************************************************************************)
(* AudioRingBuffer: the samples                                            *)
(***************************************************************************)
\* C32: with one producer calling write and one consumer calling read, the
\* blocks read are, one after the other, the samples written in the order
\* they were written: every read that finds enough samples copies, from
\* places inside the buffer, the samples of the stream that follow the ones
\* read before; and a write or read that returns false changes neither
\* index nor any stored sample.
C32_ReadIsPrefixOfWritten ==
    /\ [][(ringPc["consumer"] = "load" /\ ringPc'["consumer"] = "store")
           => \A i \in 0..(ringFrame["consumer"] - 1) :
                  LET k == CMod(m_readPosition + i, m_bufferSize)
                  IN  /\ k \in DOMAIN m_buffer
                      /\ m_buffer[k] = SourceSample(ringStream.read + i)]_vars
    /\ [][\A t \in RingThreads :
             (ringPc[t] # "idle" /\ ringPc'[t] = "idle"
              /\ ringResult'[t] = "false")
             => UNCHANGED <<m_readPosition, m_writePosition, m_buffer>>]_vars

(***************************************************************************)
(* EventDispatcher: the queue limit, unsubscribe and the cleanup           *)
(***************************************************************************)
\* C33: after any sequence of publish, setMaxQueueSize and dispatch steps
\* the queue holds at most m_maxQueueSize events, and publish never pops
\* an empty queue.
C33_QueueBounded ==
    /\ [](Len(m_eventQueue) <= m_maxQueueSize)
    /\ [][\A p \in Publishers :
             (pc[p] = "enqueue" /\ pc'[p] # "enqueue")
             => ~(Len(m_eventQueue) >= m_maxQueueSize /\ m_eventQueue = <<>>)]_vars

\* C34: once unsubscribe(handle) has returned true the listener of that
\* handle is not invoked again: every invocation is of a listener whose
\* handle is registered when it is invoked (handles are never used twice).
C34_UnsubscribedNeverInvoked ==
    [][Len(calls') > Len(calls)
       => calls'[Len(calls')][1] \in DOMAIN m_listeners]_vars

\* C35: the cleanup of inactive listeners removes no listener, global or
\* of one kind, that was put on the list of a delivery within the last
\* hour.
C35_CleanupKeepsActive ==
    [][cleanupInactiveListeners
       => \A h \in DOMAIN m_listeners \ DOMAIN m_listeners' :
              h \in DOMAIN lastDelivery
              => now - lastDelivery[h] > inactiveThreshold]_vars

\* C36: after every process() that returned true on an enabled processor
\* the input queue holds less than one frame, the input and the output
\* queue together hold less than one frame, and the samples queued before
\* the call plus the samples of the buffer are the samples still in the
\* input queue plus the samples that reached the output queue (emitted or
\* still queued).
C36_QueuesBounded ==
    [][(/\ nrRet'.call = "process"
        /\ nrRet'.result = "true"
        /\ nrRet'.wasInit
        /\ nrRet'.wasEnabled)
       => /\ Len(m_inputQueue') < RNNOISE_FRAME_SIZE
          /\ Len(m_inputQueue') + Len(m_outputQueue') <= RNNOISE_FRAME_SIZE - 1
          /\ Len(m_inputQueue') + Len(nrRet'.pending)
               = Len(m_inputQueue) + Len(m_outputQueue)
                 + getNumSamples(nrRet'.frame)
          /\ Len(nrRet'.pending) - Len(m_outputQueue')
               = Min(Len(nrRet'.pending), getNumSamples(nrRet'.frame))]_vars

\* a process() call has returned true after it processed a frame, emitted
\* fewer samples than the frame had, and left a sample in the output queue
C36_Witness ==
    /\ nrRet.call = "process"
    /\ nrRet.result = "true"
    /\ nrRet.wasInit
    /\ nrRet.wasEnabled
    /\ Len(nrRet.pending) = RNNOISE_FRAME_SIZE
    /\ Len(m_outputQueue) = RNNOISE_FRAME_SIZE - 1
    /\ m_inputQueue = <<>>

\* C37: for every sample rate initialize() accepted, both resampling steps
\* of a frame that process() takes from the input queue read and write
\* only the indices 0 .. RNNOISE_FRAME_SIZE - 1 of m_workingBuffer and
\* m_tempBuffer.
C37_ResampleInBounds ==
    [][(/\ nr_isInitialized
        /\ m_needsResampling
        /\ \/ nrPc' = "crashed"
           \/ /\ nrRet'.call = "process"
              /\ nrRet'.result = "true"
              /\ nrRet'.wasEnabled
              /\ Len(nrRet'.pending) > Len(m_outputQueue))
       => \A upsample \in BOOLEAN :
              resampleReads(m_sampleRate, upsample)
                \cup resampleWrites(m_sampleRate, upsample)
              \subseteq 0..(RNNOISE_FRAME_SIZE - 1)]_vars

\* C38: whenever no thread is inside setConfig, setEnabled or setLevel,
\* isEnabled() is getConfig().enabled.
C38_EnabledMatchesConfig ==
    (\A t \in NrThreads : cfgPc[t] = "idle") => m_enabled = m_config.enabled

\* C39: applyReductionLevel leaves the frame unchanged when the voice
\* probability is not below the threshold; when it is below, every sample
\* is multiplied by 1 - 0.3 * factor, factor being 0.5, 0.7 or 0.9 for the
\* level Low, Medium or High; and the frame afterwards is the same with
\* adaptiveMode set as with adaptiveMode cleared.
C39_StrengthShaping ==
    shapeCall.called =>
        LET c == shapeCall
            gain == CASE c.config.level = "Low" -> 17000
                      [] c.config.level = "Medium" -> 15800
                      [] c.config.level = "High" -> 14600
        IN  /\ c.voiceProb >= c.config.threshold
                => c.out = [i \in 1..Len(c.frame) |-> c.frame[i] * 20000]
            /\ c.voiceProb < c.config.threshold
                => c.out = [i \in 1..Len(c.frame) |-> c.frame[i] * gain]
            /\ c.out = applyReductionLevel(
                           [c.config EXCEPT !.adaptiveMode = ~c.config.adaptiveMode],
                           c.frame, c.voiceProb)

\* applyReductionLevel has attenuated a frame with a sample that is not 0,
\* adaptiveMode being set and the voice probability above 0
C39_Witness ==
    /\ shapeCall.called
    /\ shapeCall.config.adaptiveMode
    /\ shapeCall.voiceProb > 0
    /\ shapeCall.voiceProb < shapeCall.config.threshold
    /\ \E i \in 1..Len(shapeCall.frame) :
          /\ shapeCall.frame[i] # 0
          /\ shapeCall.out[i] # shapeCall.frame[i] * 20000

\* C40: whenever no call of the router and no hot-plug poll is in
\* progress, the current device is marked connected exactly when the
\* platform layer has a device open, and the router is routing only if
\* the current device is marked connected.
C40_RouterCoherent ==
    (/\ rpc["app"] = "idle"
     /\ rpc["audio"] = "idle"
     /\ rpc["hotplug"] \in {"none", "sleep"})
    => /\ m_currentDevice.isConnected <=> platformDevice # NoDevice
       /\ m_isRouting => m_currentDevice.isConnected

\* C31: an accessor of an AudioBuffer reads and writes only floats of the
\* buffer, and with a channel or a range of samples that is not inside the
\* buffer, or on a buffer without samples, a read returns 0 and a write
\* leaves the buffer as it was.
C31_AccessorsInBounds ==
    abAccess.called =>
        LET a == abAccess
            perChannel == a.name # "getRMSLevel"
            outOfRange ==
                \/ perChannel /\ a.channel \notin 0..(getNumChannels(a.buffer) - 1)
                \/ a.startSample < 0
                \/ a.numSamples < 0
                \/ a.startSample + a.numSamples > getNumSamples(a.buffer)
                \/ getNumSamples(a.buffer) = 0
        IN  /\ ~a.nullDeref
            /\ a.cells \subseteq Allocated(a.buffer)
            /\ outOfRange => a.value = 0 /\ a.after = a.buffer
====
